---------------------------- MODULE Spec2Model ----------------------------
(***************************************************************************)
(* A model of the chess rules engine: Position (squares), the six piece    *)
(* kinds with their movement predicates, Board (piece placement, raw move  *)
(* execution, attack and legality queries, draw material test, FEN         *)
(* placement) and Game (turn state, histories, clocks, status, notation,   *)
(* full FEN).                                                              *)
(*                                                                         *)
(* Text (algebraic squares, notation, FEN) is a sequence of one-character  *)
(* strings.  A Position is a record [row, col]; NoPos stands for null.     *)
(* A piece is a record [kind, color, hasMoved]; NoPiece stands for null.   *)
(* Board.pieces is held as a function from square index (row * 8 + col)    *)
(* to the piece standing there.                                            *)
(***************************************************************************)
EXTENDS Integers, Sequences, FiniteSets, TLC

VARIABLES game, ret, past, fromFEN, relay, peer, online

vars == <<game, ret, past, fromFEN, relay, peer, online>>

-----------------------------------------------------------------------------
(* constants.js *)

WHITE == "white"
BLACK == "black"
COLORS == {WHITE, BLACK}

FILES == <<"a", "b", "c", "d", "e", "f", "g", "h">>
RANKS == <<"1", "2", "3", "4", "5", "6", "7", "8">>

ACTIVE == "active"
CHECK == "check"
CHECKMATE_WHITE == "checkmate-white"
CHECKMATE_BLACK == "checkmate-black"
DRAW_STALEMATE == "draw-stalemate"
DRAW_INSUFFICIENT == "draw-insufficient-material"
DRAW_REPETITION == "draw-repetition"
DRAW_FIFTY_MOVE == "draw-fifty-move"

GAME_STATUS == {ACTIVE, CHECK, CHECKMATE_WHITE, CHECKMATE_BLACK, DRAW_STALEMATE,
                DRAW_INSUFFICIENT, DRAW_REPETITION, DRAW_FIFTY_MOVE}

-----------------------------------------------------------------------------
(* Arithmetic helpers (Math.abs, Math.sign) *)

Abs(x) == IF x < 0 THEN 0 - x ELSE x
Sign(x) == IF x < 0 THEN 0 - 1 ELSE IF x > 0 THEN 1 ELSE 0
Max(a, b) == IF a > b THEN a ELSE b
Min(a, b) == IF a < b THEN a ELSE b
Opposite(color) == IF color = WHITE THEN BLACK ELSE WHITE

-----------------------------------------------------------------------------
(* Position *)

Pos(r, c) == [row |-> r, col |-> c]
NoPos == [row |-> 0 - 1, col |-> 0 - 1]
Squares == {Pos(r, c) : r \in 0..7, c \in 0..7}

isValid(p) == p.row >= 0 /\ p.row < 8 /\ p.col >= 0 /\ p.col < 8
(* toAlgebraic that takes the row for the rank *)
toAlgebraicRowAsRank(p) == <<FILES[p.col + 1], RANKS[p.row + 1]>>

toAlgebraic(p) == <<FILES[p.col + 1], RANKS[(7 - p.row) + 1]>>

IndexOf(seq, ch) ==
  IF \E i \in 1..Len(seq) : seq[i] = ch
  THEN (CHOOSE i \in 1..Len(seq) : seq[i] = ch /\ \A j \in 1..(i - 1) : seq[j] # ch) - 1
  ELSE 0 - 1

toLowerCase(ch) ==
  CASE ch = "A" -> "a" [] ch = "B" -> "b" [] ch = "C" -> "c" [] ch = "D" -> "d"
    [] ch = "E" -> "e" [] ch = "F" -> "f" [] ch = "G" -> "g" [] ch = "H" -> "h"
    [] ch = "K" -> "k" [] ch = "N" -> "n" [] ch = "P" -> "p" [] ch = "Q" -> "q"
    [] ch = "R" -> "r" [] OTHER -> ch

(* fromAlgebraic throws on malformed text: ok = FALSE stands for the throw. *)
fromAlgebraic(s) ==
  IF Len(s) # 2 THEN [ok |-> FALSE, pos |-> NoPos]
  ELSE LET file == toLowerCase(s[1])
           rank == s[2]
       IN IF IndexOf(FILES, file) < 0 \/ IndexOf(RANKS, rank) < 0
          THEN [ok |-> FALSE, pos |-> NoPos]
          ELSE [ok |-> TRUE, pos |-> Pos(8 - (IndexOf(RANKS, rank) + 1), IndexOf(FILES, file))]

-----------------------------------------------------------------------------
(* Pieces *)

PAWN == "P"
KNIGHT == "N"
BISHOP == "B"
ROOK == "R"
QUEEN == "Q"
KING == "K"
Kinds == {PAWN, KNIGHT, BISHOP, ROOK, QUEEN, KING}

NoPiece == [kind |-> "none", color |-> "none", hasMoved |-> FALSE]
Piece(k, c) == [kind |-> k, color |-> c, hasMoved |-> FALSE]

symbol(pc) ==
  IF pc.color = WHITE THEN pc.kind
  ELSE CASE pc.kind = PAWN -> "p" [] pc.kind = KNIGHT -> "n" [] pc.kind = BISHOP -> "b"
         [] pc.kind = ROOK -> "r" [] pc.kind = QUEEN -> "q" [] pc.kind = KING -> "k"

abbreviation(pc) == IF pc.kind = PAWN THEN <<>> ELSE <<pc.kind>>

Idx(p) == p.row * 8 + p.col

getPieceAt(board, p) == IF isValid(p) THEN board.pieces[Idx(p)] ELSE NoPiece

getEnPassantTarget(board) == board.enPassantTarget

isPathClear(board, from, target) ==
  LET rowStep == Sign(target.row - from.row)
      colStep == Sign(target.col - from.col)
      n == Max(Abs(target.row - from.row), Abs(target.col - from.col))
  IN \A k \in 1..(n - 1) :
       getPieceAt(board, Pos(from.row + k * rowStep, from.col + k * colStep)) = NoPiece
(* Pawn.canMoveTo without the test of the starting rank *)
PawnCanMoveToFromAnyRank(board, from, target) ==
  LET this == getPieceAt(board, from)
      rowDirection == IF this.color = WHITE THEN 0 - 1 ELSE 1
      rowDiff == target.row - from.row
      colDiff == target.col - from.col
  IN IF colDiff = 0 /\ rowDiff = rowDirection
     THEN getPieceAt(board, target) = NoPiece
     ELSE IF colDiff = 0 /\ rowDiff = 2 * rowDirection
     THEN /\ getPieceAt(board, Pos(from.row + rowDirection, from.col)) = NoPiece
          /\ getPieceAt(board, target) = NoPiece
     ELSE IF Abs(colDiff) = 1 /\ rowDiff = rowDirection
     THEN LET targetPiece == getPieceAt(board, target)
          IN \/ (targetPiece # NoPiece /\ targetPiece.color # this.color)
             \/ (getEnPassantTarget(board) # NoPos /\ target = getEnPassantTarget(board))
     ELSE FALSE

PawnCanMoveTo(board, from, target) ==
  LET this == getPieceAt(board, from)
      rowDirection == IF this.color = WHITE THEN 0 - 1 ELSE 1
      startingRank == IF this.color = WHITE THEN 6 ELSE 1
      rowDiff == target.row - from.row
      colDiff == target.col - from.col
  IN IF colDiff = 0 /\ rowDiff = rowDirection
     THEN getPieceAt(board, target) = NoPiece
     ELSE IF colDiff = 0 /\ rowDiff = 2 * rowDirection /\ from.row = startingRank
     THEN /\ getPieceAt(board, Pos(from.row + rowDirection, from.col)) = NoPiece
          /\ getPieceAt(board, target) = NoPiece
     ELSE IF Abs(colDiff) = 1 /\ rowDiff = rowDirection
     THEN LET targetPiece == getPieceAt(board, target)
          IN \/ (targetPiece # NoPiece /\ targetPiece.color # this.color)
             \/ (getEnPassantTarget(board) # NoPos /\ target = getEnPassantTarget(board))
     ELSE FALSE

KnightCanMoveTo(board, from, target) ==
  LET rowDiff == Abs(target.row - from.row)
      colDiff == Abs(target.col - from.col)
  IN (rowDiff = 2 /\ colDiff = 1) \/ (rowDiff = 1 /\ colDiff = 2)

BishopCanMoveTo(board, from, target) ==
  LET rowDiff == Abs(target.row - from.row)
      colDiff == Abs(target.col - from.col)
  IN rowDiff = colDiff /\ isPathClear(board, from, target)

RookCanMoveTo(board, from, target) ==
  (from.row = target.row \/ from.col = target.col) /\ isPathClear(board, from, target)

QueenCanMoveTo(board, from, target) ==
  LET rowDiff == Abs(target.row - from.row)
      colDiff == Abs(target.col - from.col)
  IN IF rowDiff = colDiff THEN isPathClear(board, from, target)
     ELSE IF from.row = target.row \/ from.col = target.col
     THEN isPathClear(board, from, target)
     ELSE FALSE

KingCanMoveTo(board, from, target) ==
  LET this == getPieceAt(board, from)
      rowDiff == Abs(target.row - from.row)
      colDiff == Abs(target.col - from.col)
  IN IF rowDiff <= 1 /\ colDiff <= 1 THEN TRUE
     ELSE IF ~this.hasMoved /\ rowDiff = 0 /\ colDiff = 2
     THEN LET isKingside == target.col > from.col
              rookCol == IF isKingside THEN 7 ELSE 0
              rook == getPieceAt(board, Pos(from.row, rookCol))
              colStart == Min(from.col, rookCol)
              colEnd == Max(from.col, rookCol)
          IN IF rook = NoPiece \/ rook.kind # ROOK \/ rook.color # this.color \/ rook.hasMoved
             THEN FALSE
             ELSE \A col \in (colStart + 1)..(colEnd - 1) :
                    getPieceAt(board, Pos(from.row, col)) = NoPiece
     ELSE FALSE

canMoveTo(board, from, target) ==
  LET k == getPieceAt(board, from).kind
  IN CASE k = PAWN -> PawnCanMoveTo(board, from, target)
       [] k = KNIGHT -> KnightCanMoveTo(board, from, target)
       [] k = BISHOP -> BishopCanMoveTo(board, from, target)
       [] k = ROOK -> RookCanMoveTo(board, from, target)
       [] k = QUEEN -> QueenCanMoveTo(board, from, target)
       [] k = KING -> KingCanMoveTo(board, from, target)

(* Piece.isValidMove of the piece standing on `from`. *)
isValidMove(board, from, target) ==
  IF ~isValid(target) THEN FALSE
  ELSE IF from = target THEN FALSE
  ELSE LET targetPiece == getPieceAt(board, target)
       IN IF targetPiece # NoPiece /\ targetPiece.color = getPieceAt(board, from).color
          THEN FALSE
          ELSE canMoveTo(board, from, target)

-----------------------------------------------------------------------------
(* Board *)

EmptyPieces == [i \in 0..63 |-> NoPiece]

(* Board.setupInitialPosition: the standard starting placement. *)
BackRank == <<ROOK, KNIGHT, BISHOP, QUEEN, KING, BISHOP, KNIGHT, ROOK>>

setupInitialPosition ==
  [pieces |-> [i \in 0..63 |->
                 LET r == i \div 8
                     c == i % 8
                 IN CASE r = 0 -> Piece(BackRank[c + 1], BLACK)
                      [] r = 1 -> Piece(PAWN, BLACK)
                      [] r = 6 -> Piece(PAWN, WHITE)
                      [] r = 7 -> Piece(BackRank[c + 1], WHITE)
                      [] OTHER -> NoPiece],
   enPassantTarget |-> NoPos,
   capturedPieces |-> <<>>]

NewBoard == setupInitialPosition

OccupiedSquares(board) == {p \in Squares : board.pieces[Idx(p)] # NoPiece}

getPiecesByColor(board, color) == {p \in Squares : board.pieces[Idx(p)].color = color}

(* Board.getKing: the square of the king of `color`, NoPos when there is none. *)
getKing(board, color) ==
  LET ks == {p \in Squares : board.pieces[Idx(p)].kind = KING /\ board.pieces[Idx(p)].color = color}
  IN IF ks = {} THEN NoPos
     ELSE CHOOSE p \in ks : \A q \in ks : Idx(p) <= Idx(q)

FailedMove(board, msg) ==
  [board |-> board,
   result |-> [success |-> FALSE, error |-> msg, piece |-> NoPiece, from |-> NoPos, to |-> NoPos,
               capturedPiece |-> NoPiece, isPromotion |-> FALSE, promotedTo |-> NoPiece,
               isCastling |-> FALSE, isEnPassant |-> FALSE, newEnPassantTarget |-> NoPos]]
(* the constructor chosen without looking at the kind asked for *)
PieceConstructorQueen(promotionPiece) == QUEEN

PieceConstructor(promotionPiece) ==
  IF promotionPiece \in {QUEEN, ROOK, BISHOP, KNIGHT} THEN promotionPiece ELSE QUEEN

RemoveAt(board, p) ==
  [board EXCEPT !.pieces[Idx(p)] = NoPiece,
                !.capturedPieces = Append(@, board.pieces[Idx(p)])]

(* movePiece without the removal of the piece standing on the destination *)
captureAtLeavesPiece(board, to) == board

(* movePiece, capture on the destination square *)
captureAt(board, to) ==
  IF getPieceAt(board, to) # NoPiece THEN RemoveAt(board, to) ELSE board

(* movePiece, en passant: the square of the pawn captured when `piece` moves to *)
(* `to`, NoPos when the move is no en passant capture.                         *)
enPassantCapture(board, piece, to) ==
  LET capturePosition == Pos(IF piece.color = WHITE THEN to.row + 1 ELSE to.row - 1, to.col)
  IN IF /\ piece.kind = PAWN
        /\ board.enPassantTarget # NoPos
        /\ to = board.enPassantTarget
        /\ getPieceAt(board, capturePosition) # NoPiece
     THEN capturePosition ELSE NoPos

(* movePiece without the removal of the pawn taken en passant *)
captureEnPassantLeavesPawn(board, piece, to) == board

captureEnPassant(board, piece, to) ==
  IF enPassantCapture(board, piece, to) # NoPos
  THEN RemoveAt(board, enPassantCapture(board, piece, to)) ELSE board

isPromotionMove(piece, to) ==
  /\ piece.kind = PAWN
  /\ \/ (piece.color = WHITE /\ to.row = 0)
     \/ (piece.color = BLACK /\ to.row = 7)

promotedPiece(piece, promotionPiece) ==
  [kind |-> PieceConstructor(promotionPiece), color |-> piece.color, hasMoved |-> TRUE]
(* the relocation without hasMoved = true: the piece arrives with the flag it *)
(* had                                                                        *)
placePieceKeepsFlag(board, piece, from, to, promotionPiece, onBoard) ==
  IF isPromotionMove(piece, to)
  THEN [board EXCEPT !.pieces = [@ EXCEPT ![Idx(from)] = NoPiece,
                                          ![Idx(to)] = promotedPiece(piece, promotionPiece)]]
  ELSE IF onBoard
  THEN [board EXCEPT !.pieces = [@ EXCEPT ![Idx(from)] = NoPiece, ![Idx(to)] = piece]]
  ELSE board

(* movePiece, promotion or the regular relocation (piece.moveTo).  onBoard is *)
(* FALSE when the moving piece object was itself removed from the piece list  *)
(* by the en passant capture: moveTo then changes no square of the board.     *)
placePiece(board, piece, from, to, promotionPiece, onBoard) ==
  IF isPromotionMove(piece, to)
  THEN [board EXCEPT !.pieces = [@ EXCEPT ![Idx(from)] = NoPiece,
                                          ![Idx(to)] = promotedPiece(piece, promotionPiece)]]
  ELSE IF onBoard
  THEN [board EXCEPT !.pieces = [@ EXCEPT ![Idx(from)] = NoPiece,
                                          ![Idx(to)] = [piece EXCEPT !.hasMoved = TRUE]]]
  ELSE board

isCastlingMove(piece, from, to) == piece.kind = KING /\ Abs(to.col - from.col) = 2
(* movePiece without the relocation of the rook *)
castleRookLeavesRook(board, piece, from, to) == board

(* movePiece, castling: relocate the rook of the corner next to the king *)
castleRook(board, piece, from, to) ==
  LET isKingside == to.col > from.col
      rookPosition == Pos(from.row, IF isKingside THEN 7 ELSE 0)
      rook == getPieceAt(board, rookPosition)
      newRookPosition == Pos(from.row, IF isKingside THEN to.col - 1 ELSE to.col + 1)
  IN IF isCastlingMove(piece, from, to) /\ rook # NoPiece
     THEN [board EXCEPT !.pieces = [@ EXCEPT ![Idx(rookPosition)] = NoPiece,
                                             ![Idx(newRookPosition)] = [rook EXCEPT !.hasMoved = TRUE]]]
     ELSE board
(* the en passant target without the test that the piece is a pawn *)
newEnPassantTargetAnyPiece(piece, from, to) ==
  IF Abs(to.row - from.row) = 2
  THEN Pos(IF piece.color = WHITE THEN from.row - 1 ELSE from.row + 1, from.col)
  ELSE NoPos

(* movePiece, the en passant target the move leaves *)
newEnPassantTarget(piece, from, to) ==
  IF piece.kind = PAWN /\ Abs(to.row - from.row) = 2
  THEN Pos(IF piece.color = WHITE THEN from.row - 1 ELSE from.row + 1, from.col)
  ELSE NoPos

(* movePiece, the result object of an executed move *)
movePieceResult(board, piece, from, to, promotionPiece) ==
  LET epSquare == enPassantCapture(captureAt(board, to), piece, to)
  IN [success |-> TRUE, error |-> "", piece |-> piece, from |-> from, to |-> to,
      capturedPiece |-> IF epSquare # NoPos THEN getPieceAt(board, epSquare)
                        ELSE getPieceAt(board, to),
      isPromotion |-> isPromotionMove(piece, to),
      promotedTo |-> IF isPromotionMove(piece, to) THEN promotedPiece(piece, promotionPiece)
                     ELSE NoPiece,
      isCastling |-> isCastlingMove(piece, from, to),
      isEnPassant |-> epSquare # NoPos,
      newEnPassantTarget |-> newEnPassantTarget(piece, from, to)]

(* movePiece, the board after an executed move: the steps in the code's order *)
movedBoard(board, piece, from, to, promotionPiece) ==
  [castleRook(
     placePiece(captureEnPassant(captureAt(board, to), piece, to),
                piece, from, to, promotionPiece,
                enPassantCapture(captureAt(board, to), piece, to) # from),
     piece, from, to)
   EXCEPT !.enPassantTarget = newEnPassantTarget(piece, from, to)]
(* movePiece with the capture made before the move is validated *)
movePieceCaptureFirst(board, from, to, promotionPiece) ==
  IF getPieceAt(board, from) = NoPiece THEN FailedMove(board, "No piece at source position")
  ELSE IF ~isValidMove(board, from, to) THEN FailedMove(captureAt(board, to), "Invalid move")
  ELSE [board |-> movedBoard(board, getPieceAt(board, from), from, to, promotionPiece),
        result |-> movePieceResult(board, getPieceAt(board, from), from, to, promotionPiece)]

(* Board.movePiece: returns the board after the call and the result object. *)
movePiece(board, from, to, promotionPiece) ==
  IF getPieceAt(board, from) = NoPiece THEN FailedMove(board, "No piece at source position")
  ELSE IF ~isValidMove(board, from, to) THEN FailedMove(board, "Invalid move")
  ELSE [board |-> movedBoard(board, getPieceAt(board, from), from, to, promotionPiece),
        result |-> movePieceResult(board, getPieceAt(board, from), from, to, promotionPiece)]
(* isSquareAttacked with every attacker asked for its isValidMove *)
isSquareAttackedByValidMoves(board, position, attackerColor) ==
  \E a \in getPiecesByColor(board, attackerColor) : isValidMove(board, a, position)

isSquareAttacked(board, position, attackerColor) ==
  \E a \in getPiecesByColor(board, attackerColor) :
    LET attacker == board.pieces[Idx(a)]
    IN IF attacker.kind = KING
       THEN Abs(position.row - a.row) <= 1 /\ Abs(position.col - a.col) <= 1
       ELSE IF attacker.kind = PAWN
       THEN LET rowDirection == IF attackerColor = WHITE THEN 0 - 1 ELSE 1
            IN /\ a.row + rowDirection = position.row
               /\ (a.col - 1 = position.col \/ a.col + 1 = position.col)
       ELSE isValidMove(board, a, position)
(* isKingInCheck that finds no king in check *)
isKingInCheckNever(board, kingColor) == FALSE

isKingInCheck(board, kingColor) ==
  LET king == getKing(board, kingColor)
  IN IF king = NoPos THEN FALSE
     ELSE isSquareAttacked(board, king, Opposite(kingColor))

(* Board.clone: a deep copy (pieces, captured list, en passant target). *)
clone(board) ==
  [pieces |-> [i \in 0..63 |-> board.pieces[i]],
   enPassantTarget |-> board.enPassantTarget,
   capturedPieces |-> board.capturedPieces]

(* getLegalMovesForPiece without the simulation that filters out self-check *)
getLegalMovesUnfiltered(board, from) ==
  IF getPieceAt(board, from) = NoPiece THEN {}
  ELSE {targetPos \in Squares : targetPos # from /\ isValidMove(board, from, targetPos)}
(* getLegalMovesForPiece with the king tested on the board itself, where the *)
(* candidate move was not made                                              *)
getLegalMovesUntried(board, from) ==
  IF getPieceAt(board, from) = NoPiece THEN {}
  ELSE {targetPos \in Squares :
          /\ targetPos # from
          /\ isValidMove(board, from, targetPos)
          /\ ~isKingInCheck(board, getPieceAt(board, from).color)}

(* Board.getLegalMovesForPiece of the piece standing on `from`, as a set. *)
getLegalMovesForPiece(board, from) ==
  IF getPieceAt(board, from) = NoPiece THEN {}
  ELSE {targetPos \in Squares :
          /\ targetPos # from
          /\ isValidMove(board, from, targetPos)
          /\ ~isKingInCheck(movePiece(clone(board), from, targetPos, QUEEN).board,
                            getPieceAt(board, from).color)}

(* getLegalMovesForPiece had the candidate move executed on the board itself *)
simulatedOnLiveBoard(board, tempBoard) == tempBoard

(* getLegalMovesForPiece, the board the call is made on after one candidate     *)
(* move was executed: the move ran on tempBoard, a clone, which is dropped.    *)
simulatedOnClone(board, tempBoard) == board
(* getLegalMovesForPiece, one candidate move executed on tempBoard: whether it *)
(* is legal, and the board the call is made on afterwards                     *)
targetTried(board, from, tempBoard) ==
  [board |-> simulatedOnClone(board, tempBoard),
   legal |-> ~isKingInCheck(tempBoard, getPieceAt(board, from).color)]

(* getLegalMovesForPiece, the body of the loop for one targetPos *)
tryTarget(board, from, targetPos) ==
  IF targetPos = from \/ ~isValidMove(board, from, targetPos)
  THEN [board |-> board, legal |-> FALSE]
  ELSE targetTried(board, from, movePiece(clone(board), from, targetPos, QUEEN).board)

RECURSIVE legalMovesFrom(_, _, _, _)

(* getLegalMovesForPiece, legalMoves.push(targetPos) and the next square *)
nextTarget(tried, from, i, legalMoves) ==
  legalMovesFrom(tried.board, from, i + 1,
                 IF tried.legal THEN legalMoves \cup {Pos(i \div 8, i % 8)} ELSE legalMoves)

(* getLegalMovesForPiece, the loop over rows and columns from square i on.  It *)
(* is followed for as long as the piece stands on `from`.                     *)
legalMovesFrom(board, from, i, legalMoves) ==
  IF i > 63 \/ getPieceAt(board, from) = NoPiece
  THEN [board |-> board, moves |-> legalMoves]
  ELSE nextTarget(tryTarget(board, from, Pos(i \div 8, i % 8)), from, i, legalMoves)

(* Board.getLegalMovesForPiece as a call: the destinations it returns and the  *)
(* board it leaves.                                                            *)
queryLegalMoves(board, from) == legalMovesFrom(board, from, 0, {})

hasLegalMoves(board, color) ==
  \E p \in getPiecesByColor(board, color) : getLegalMovesForPiece(board, p) # {}

(* isCheckmate without the test that the king is in check *)
isCheckmateWithoutCheck(board, color) == ~hasLegalMoves(board, color)

isCheckmate(board, color) ==
  IF ~isKingInCheck(board, color) THEN FALSE ELSE ~hasLegalMoves(board, color)

isStalemate(board, color) ==
  IF isKingInCheck(board, color) THEN FALSE ELSE ~hasLegalMoves(board, color)

(* isInsufficientMaterial without the comparison of the bishops' square colours *)
isInsufficientMaterialAnySquares(board) ==
  LET occ == OccupiedSquares(board)
      bishops == {p \in occ : board.pieces[Idx(p)].kind = BISHOP}
      knights == {p \in occ : board.pieces[Idx(p)].kind = KNIGHT}
  IN IF Cardinality(occ) = 2 THEN TRUE
     ELSE IF Cardinality(occ) = 3 THEN Cardinality(bishops) = 1 \/ Cardinality(knights) = 1
     ELSE IF Cardinality(occ) = 4 /\ Cardinality(bishops) = 2
     THEN \E bishop1, bishop2 \in bishops :
            /\ bishop1 # bishop2
            /\ board.pieces[Idx(bishop1)].color # board.pieces[Idx(bishop2)].color
     ELSE FALSE

isInsufficientMaterial(board) ==
  LET occ == OccupiedSquares(board)
      n == Cardinality(occ)
      bishops == {p \in occ : board.pieces[Idx(p)].kind = BISHOP}
      knights == {p \in occ : board.pieces[Idx(p)].kind = KNIGHT}
  IN IF n = 2 THEN TRUE
     ELSE IF n = 3 THEN Cardinality(bishops) = 1 \/ Cardinality(knights) = 1
     ELSE IF n = 4 /\ Cardinality(bishops) = 2
     THEN \E bishop1, bishop2 \in bishops :
            /\ bishop1 # bishop2
            /\ board.pieces[Idx(bishop1)].color # board.pieces[Idx(bishop2)].color
            /\ ((bishop1.row + bishop1.col) % 2 = 1) = ((bishop2.row + bishop2.col) % 2 = 1)
     ELSE FALSE

(* Board.getPositionSignature: the sorted symbol+square text is one canonical   *)
(* text per set of (symbol, square) pairs; the signature is held as that set    *)
(* with the en passant field.                                                   *)
getPositionSignature(board) ==
  [placed |-> {<<symbol(board.pieces[Idx(p)]), toAlgebraic(p)>> : p \in OccupiedSquares(board)},
   ep |-> IF board.enPassantTarget # NoPos THEN toAlgebraic(board.enPassantTarget) ELSE <<"-">>]

-----------------------------------------------------------------------------
(* Text helpers: String.split, String.trim, String.includes, parseInt *)

RECURSIVE SplitAcc(_, _, _, _, _)
SplitAcc(s, sep, i, cur, acc) ==
  IF i > Len(s) THEN Append(acc, cur)
  ELSE IF s[i] = sep THEN SplitAcc(s, sep, i + 1, <<>>, Append(acc, cur))
  ELSE SplitAcc(s, sep, i + 1, Append(cur, s[i]), acc)

split(s, sep) == SplitAcc(s, sep, 1, <<>>, <<>>)

RECURSIVE trimStart(_)
trimStart(s) == IF Len(s) > 0 /\ s[1] = " " THEN trimStart(Tail(s)) ELSE s

RECURSIVE trimEnd(_)
trimEnd(s) == IF Len(s) > 0 /\ s[Len(s)] = " " THEN trimEnd(SubSeq(s, 1, Len(s) - 1)) ELSE s

trim(s) == trimEnd(trimStart(s))

includes(s, ch) == \E i \in 1..Len(s) : s[i] = ch

DIGITS == <<"0", "1", "2", "3", "4", "5", "6", "7", "8", "9">>

(* NaN: the value parseInt gives for text that starts with no digit. *)
NaN == 0 - 1000000
isNaN(x) == x = NaN

RECURSIVE ParseDigits(_, _, _)
ParseDigits(s, i, acc) ==
  IF i <= Len(s) /\ IndexOf(DIGITS, s[i]) >= 0
  THEN ParseDigits(s, i + 1, acc * 10 + IndexOf(DIGITS, s[i]))
  ELSE acc

parseInt(s) ==
  LET signed == Len(s) > 0 /\ s[1] \in {"-", "+"}
      body == IF signed THEN Tail(s) ELSE s
  IN IF Len(body) = 0 \/ IndexOf(DIGITS, body[1]) < 0 THEN NaN
     ELSE IF signed /\ s[1] = "-" THEN 0 - ParseDigits(body, 1, 0)
     ELSE ParseDigits(body, 1, 0)

(* x++ on a number that may be NaN *)
Increment(x) == IF isNaN(x) THEN NaN ELSE x + 1

-----------------------------------------------------------------------------
(* Board.loadFEN *)

PieceLetters == {"p", "r", "n", "b", "q", "k", "P", "R", "N", "B", "Q", "K"}

PieceOfLetter(char) ==
  LET color == IF char \in {"P", "R", "N", "B", "Q", "K"} THEN WHITE ELSE BLACK
      k == CASE toLowerCase(char) = "p" -> PAWN [] toLowerCase(char) = "r" -> ROOK
             [] toLowerCase(char) = "n" -> KNIGHT [] toLowerCase(char) = "b" -> BISHOP
             [] toLowerCase(char) = "q" -> QUEEN [] toLowerCase(char) = "k" -> KING
  IN Piece(k, color)

(* One rank of the placement field.  A piece pushed at a column past the board  *)
(* is not on any square and is left out of `pieces`; the rank then fails.       *)
RECURSIVE LoadRow(_, _, _, _, _)
LoadRow(pieces, rowText, row, i, col) ==
  IF i > Len(rowText) THEN [ok |-> col = 8, pieces |-> pieces]
  ELSE LET char == rowText[i]
       IN IF IndexOf(RANKS, char) >= 0
          THEN LoadRow(pieces, rowText, row, i + 1, col + IndexOf(RANKS, char) + 1)
          ELSE IF char \in PieceLetters
          THEN LoadRow(IF col <= 7 THEN [pieces EXCEPT ![row * 8 + col] = PieceOfLetter(char)]
                       ELSE pieces,
                       rowText, row, i + 1, col + 1)
          ELSE [ok |-> FALSE, pieces |-> pieces]

RECURSIVE LoadRows(_, _, _)
LoadRows(pieces, rows, row) ==
  IF row > 7 THEN [ok |-> TRUE, pieces |-> pieces]
  ELSE LET r == LoadRow(pieces, rows[row + 1], row, 1, 0)
       IN IF ~r.ok THEN r ELSE LoadRows(r.pieces, rows, row + 1)

(* Board.loadFEN: returns the success flag and the board after the call. *)
BoardLoadFEN(board, fen) ==
  LET cleared == [pieces |-> EmptyPieces, enPassantTarget |-> NoPos, capturedPieces |-> <<>>]
      rows == split(fen, "/")
  IN IF Len(rows) # 8 THEN [ok |-> FALSE, board |-> cleared]
     ELSE LET r == LoadRows(EmptyPieces, rows, 0)
          IN [ok |-> r.ok, board |-> [cleared EXCEPT !.pieces = r.pieces]]

-----------------------------------------------------------------------------
(* Game *)

NoMove == [piece |-> NoPiece, from |-> <<>>, to |-> <<>>, capturedPiece |-> NoPiece,
           isPromotion |-> FALSE, promotedTo |-> NoPiece, isCastling |-> FALSE,
           isEnPassant |-> FALSE, notation |-> <<>>]

(* Game.constructor *)
NewGame ==
  [board |-> NewBoard,
   currentTurn |-> WHITE,
   moveHistory |-> <<>>,
   positionHistory |-> <<getPositionSignature(NewBoard)>>,
   halfMoveClock |-> 0,
   fullMoveNumber |-> 1,
   gameStatus |-> ACTIVE]

(* generateMoveNotation with the test for check made before the one for mate *)
checkSymbolCheckFirst(board, opponentColor) ==
  IF isKingInCheck(board, opponentColor) THEN <<"+">>
  ELSE IF isCheckmate(board, opponentColor) THEN <<"#">>
  ELSE <<>>

(* Game.generateMoveNotation, the check or checkmate symbol *)
checkSymbol(board, opponentColor) ==
  IF isCheckmate(board, opponentColor) THEN <<"#">>
  ELSE IF isKingInCheck(board, opponentColor) THEN <<"+">>
  ELSE <<>>

(* Game.generateMoveNotation, called with the board already updated and     *)
(* currentTurn still the mover's color.                                     *)
generateMoveNotation(g, moveResult) ==
  LET piece == moveResult.piece
      from == moveResult.from
      to == moveResult.to
      captures == moveResult.capturedPiece # NoPiece \/ moveResult.isEnPassant
      otherPieces == {p \in Squares :
                        /\ p # to
                        /\ g.board.pieces[Idx(p)].kind = piece.kind
                        /\ g.board.pieces[Idx(p)].color = piece.color
                        /\ isValidMove(g.board, p, to)}
      sameFile == \E p \in otherPieces : p.col = from.col
      sameRank == \E p \in otherPieces : p.row = from.row
      prefix == IF piece.kind # PAWN
                THEN abbreviation(piece) \o
                     (IF otherPieces # {}
                      THEN IF ~sameFile THEN <<toAlgebraic(from)[1]>>
                           ELSE IF ~sameRank THEN <<toAlgebraic(from)[2]>>
                           ELSE toAlgebraic(from)
                      ELSE <<>>)
                ELSE IF captures THEN <<toAlgebraic(from)[1]>>
                ELSE <<>>
      promo == IF moveResult.isPromotion /\ moveResult.promotedTo # NoPiece
               THEN <<"=">> \o abbreviation(moveResult.promotedTo)
               ELSE <<>>
      suffix == checkSymbol(g.board, Opposite(g.currentTurn))
  IN IF moveResult.isCastling
     THEN IF to.col > from.col THEN <<"O", "-", "O">> ELSE <<"O", "-", "O", "-", "O">>
     ELSE prefix \o (IF captures THEN <<"x">> ELSE <<>>) \o toAlgebraic(to) \o promo \o suffix

Count(seq, x) == Cardinality({i \in 1..Len(seq) : seq[i] = x})

(* repeatCount that leaves the first entry, the starting position, uncounted *)
repeatCountAfterStart(g) == Count(Tail(g.positionHistory), getPositionSignature(g.board))

(* Game.updateGameStatus: the occurrences of the current signature in the history *)
repeatCount(g) == Count(g.positionHistory, getPositionSignature(g.board))

(* updateGameStatus with the fifty-move test ahead of the repetition test *)
updateGameStatusFiftyFirst(g) ==
  IF isCheckmate(g.board, g.currentTurn)
  THEN (IF g.currentTurn = WHITE THEN CHECKMATE_BLACK ELSE CHECKMATE_WHITE)
  ELSE IF isStalemate(g.board, g.currentTurn) THEN DRAW_STALEMATE
  ELSE IF isInsufficientMaterial(g.board) THEN DRAW_INSUFFICIENT
  ELSE IF ~isNaN(g.halfMoveClock) /\ g.halfMoveClock >= 100 THEN DRAW_FIFTY_MOVE
  ELSE IF repeatCount(g) >= 3 THEN DRAW_REPETITION
  ELSE IF isKingInCheck(g.board, g.currentTurn) THEN CHECK
  ELSE ACTIVE

(* Game.updateGameStatus: the status for the game's board, turn, history and clock; *)
(* opponentColor is the side now to move.                                           *)
updateGameStatus(g) ==
  IF isCheckmate(g.board, g.currentTurn)
  THEN (IF g.currentTurn = WHITE THEN CHECKMATE_BLACK ELSE CHECKMATE_WHITE)
  ELSE IF isStalemate(g.board, g.currentTurn) THEN DRAW_STALEMATE
  ELSE IF isInsufficientMaterial(g.board) THEN DRAW_INSUFFICIENT
  ELSE IF repeatCount(g) >= 3 THEN DRAW_REPETITION
  ELSE IF ~isNaN(g.halfMoveClock) /\ g.halfMoveClock >= 100 THEN DRAW_FIFTY_MOVE
  ELSE IF isKingInCheck(g.board, g.currentTurn) THEN CHECK
  ELSE ACTIVE

NoArgs == [from |-> NoPos, to |-> NoPos, promotion |-> "", fen |-> <<>>]
MoveArgs(from, to, promotionPiece) ==
  [from |-> from, to |-> to, promotion |-> promotionPiece, fen |-> <<>>]

Failure(msg) == [success |-> FALSE, error |-> msg, move |-> NoMove]
Success(move) == [success |-> TRUE, error |-> "", move |-> move]

NotTurnError(color) == IF color = WHITE THEN "Not white's turn" ELSE "Not black's turn"
SelfCheckError == "Move would leave king in check"

(* Game.makeMove, the turn test: `piece` may be moved by the side to move *)
isTurnOf(g, piece) == piece # NoPiece /\ piece.color = g.currentTurn

(* leavesKingInCheck without the test *)
leavesKingInCheckIgnored(tempBoard, color) == FALSE

(* Game.makeMove, the self-check test on the board the move was simulated on *)
leavesKingInCheck(tempBoard, color) == isKingInCheck(tempBoard, color)

(* rejectMove had the simulation run on the live board instead of a clone *)
rejectMoveOnLiveBoard(g, tempBoard, msg) ==
  [game |-> [g EXCEPT !.board = tempBoard], ret |-> Failure(msg)]

(* Game.makeMove, the early returns: the simulation ran on tempBoard, a clone *)
(* of the live board, so the game is returned as it was.                     *)
rejectMove(g, tempBoard, msg) == [game |-> g, ret |-> Failure(msg)]

(* Game.makeMove: half-move clock after a committed move *)
nextHalfMoveClock(clock, piece, result) ==
  IF piece.kind = PAWN \/ result.capturedPiece # NoPiece THEN 0 ELSE Increment(clock)

(* Game.makeMove: full-move number after a committed move by `turn` *)
nextFullMoveNumber(n, turn) == IF turn = BLACK THEN Increment(n) ELSE n

(* Game.makeMove: the live board moved, the clock updated, the signature saved *)
boardCommitted(g, piece, moved) ==
  [g EXCEPT !.board = moved.board,
            !.halfMoveClock = nextHalfMoveClock(@, piece, moved.result),
            !.positionHistory = Append(@, getPositionSignature(moved.board))]

(* Game.makeMove: the move record *)
moveRecord(g1, piece, result, fromPos, toPos) ==
  [piece |-> Piece(piece.kind, piece.color),
   from |-> toAlgebraic(fromPos),
   to |-> toAlgebraic(toPos),
   capturedPiece |-> result.capturedPiece,
   isPromotion |-> result.isPromotion,
   promotedTo |-> result.promotedTo,
   isCastling |-> result.isCastling,
   isEnPassant |-> result.isEnPassant,
   notation |-> generateMoveNotation(g1, result)]

(* Game.makeMove: history, full-move number and turn *)
turnSwitched(g1, move) ==
  [g1 EXCEPT !.moveHistory = Append(@, move),
             !.fullMoveNumber = nextFullMoveNumber(@, g1.currentTurn),
             !.currentTurn = Opposite(g1.currentTurn)]

statusUpdated(g2) == [g2 EXCEPT !.gameStatus = updateGameStatus(g2)]

moveRecorded(g1, move) ==
  [game |-> statusUpdated(turnSwitched(g1, move)), ret |-> Success(move)]

moveCommitted(g, piece, moved, fromPos, toPos) ==
  moveRecorded(boardCommitted(g, piece, moved),
               moveRecord(boardCommitted(g, piece, moved), piece, moved.result, fromPos, toPos))

(* Game.makeMove, the commit on the live board. *)
commitMove(g, fromPos, toPos, promotionPiece) ==
  moveCommitted(g, getPieceAt(g.board, fromPos),
                movePiece(g.board, fromPos, toPos, promotionPiece), fromPos, toPos)

(* Game.makeMove after the simulation on tempBoard = clone(board).movePiece(...) *)
simulatedMove(g, tempBoard, fromPos, toPos, promotionPiece) ==
  IF ~tempBoard.result.success THEN rejectMove(g, tempBoard.board, tempBoard.result.error)
  ELSE IF leavesKingInCheck(tempBoard.board, g.currentTurn)
  THEN rejectMove(g, tempBoard.board, SelfCheckError)
  ELSE commitMove(g, fromPos, toPos, promotionPiece)

(* Game.makeMove: returns the game after the call and the returned object. *)
makeMove(g, fromPos, toPos, promotionPiece) ==
  IF ~isTurnOf(g, getPieceAt(g.board, fromPos))
  THEN rejectMove(g, clone(g.board), NotTurnError(g.currentTurn))
  ELSE simulatedMove(g, movePiece(clone(g.board), fromPos, toPos, promotionPiece),
                     fromPos, toPos, promotionPiece)

(* Number.toString *)
RECURSIVE toText(_)
toText(n) == IF n < 10 THEN <<DIGITS[n + 1]>> ELSE toText(n \div 10) \o <<DIGITS[(n % 10) + 1]>>

(* String.startsWith('draw') on a game status *)
startsWithDraw(status) ==
  status \in {DRAW_STALEMATE, DRAW_INSUFFICIENT, DRAW_REPETITION, DRAW_FIFTY_MOVE}

RECURSIVE PGNPairs(_, _)
PGNPairs(history, i) ==
  IF i >= Len(history) THEN <<>>
  ELSE toText((i \div 2) + 1) \o <<".", " ">> \o history[i + 1].notation \o <<" ">>
       \o (IF i + 1 < Len(history) THEN history[i + 2].notation \o <<" ">> ELSE <<>>)
       \o PGNPairs(history, i + 2)

(* The result token getPGNMoveText appends for a game status. *)
resultToken(status) ==
  IF status = CHECKMATE_WHITE THEN <<"1", "-", "0">>
  ELSE IF status = CHECKMATE_BLACK THEN <<"0", "-", "1">>
  ELSE IF startsWithDraw(status) THEN <<"1", "/", "2", "-", "1", "/", "2">>
  ELSE <<>>

getPGNMoveText(g) == trim(PGNPairs(g.moveHistory, 0) \o resultToken(g.gameStatus))

(* Game.loadFEN, the helper that finds the rook a castling right is about *)
findRook(board, color, col) ==
  LET position == Pos(IF color = WHITE THEN 7 ELSE 0, col)
      piece == getPieceAt(board, position)
  IN IF piece.kind = ROOK /\ piece.color = color THEN position ELSE NoPos

ClearHasMoved(board, p) ==
  IF p = NoPos THEN board ELSE [board EXCEPT !.pieces[Idx(p)].hasMoved = FALSE]

(* loadFEN: every king and rook marked as moved *)
markAllMoved(board) ==
  [board EXCEPT !.pieces = [i \in 0..63 |-> IF @[i].kind \in {KING, ROOK}
                                            THEN [@[i] EXCEPT !.hasMoved = TRUE] ELSE @[i]]]
(* loadFEN that leaves the kings marked as moved *)
castlingKingStaysMoved(board, castling, color, kingside, queenside) == board

castlingKing(board, castling, color, kingside, queenside) ==
  IF castling # <<"-">> /\ (includes(castling, kingside) \/ includes(castling, queenside))
  THEN ClearHasMoved(board, getKing(board, color)) ELSE board

castlingRook(board, castling, letter, color, col) ==
  IF castling # <<"-">> /\ includes(castling, letter)
  THEN ClearHasMoved(board, findRook(board, color, col)) ELSE board

(* loadFEN: the hasMoved flags set from the castling field *)
applyCastling(board, castling) ==
  castlingRook(
    castlingRook(
      castlingRook(
        castlingRook(
          castlingKing(castlingKing(markAllMoved(board), castling, WHITE, "K", "Q"),
                       castling, BLACK, "k", "q"),
          castling, "K", WHITE, 7),
        castling, "Q", WHITE, 0),
      castling, "k", BLACK, 7),
    castling, "q", BLACK, 0)

LoadFailed(g) == [ok |-> FALSE, game |-> g]

(* loadFEN: histories reset, status recomputed *)
loadFinished(g) ==
  [ok |-> TRUE,
   game |-> statusUpdated([g EXCEPT !.moveHistory = <<>>,
                                    !.positionHistory = <<getPositionSignature(g.board)>>])]

(* loadFEN: field 6, the full-move number (assigned before it is tested) *)
fullMoveLoaded(g) == IF isNaN(g.fullMoveNumber) THEN LoadFailed(g) ELSE loadFinished(g)

(* loadFEN: field 5, the half-move clock (assigned before it is tested) *)
halfMoveLoaded(g, parts) ==
  IF isNaN(g.halfMoveClock) THEN LoadFailed(g)
  ELSE fullMoveLoaded([g EXCEPT !.fullMoveNumber = parseInt(parts[6])])

(* loadFEN: field 4, the en passant target *)
enPassantLoaded(g, parts, ep) ==
  IF parts[4] # <<"-">> /\ ~ep.ok THEN LoadFailed(g)
  ELSE halfMoveLoaded([g EXCEPT !.board.enPassantTarget =
                                   IF parts[4] # <<"-">> THEN ep.pos ELSE NoPos,
                                !.halfMoveClock = parseInt(parts[5])], parts)

(* loadFEN: fields 1 to 3, the placement, the active color, the castling rights *)
placementLoaded(g, parts, loaded) ==
  IF ~loaded.ok THEN LoadFailed([g EXCEPT !.board = loaded.board])
  ELSE enPassantLoaded([g EXCEPT !.board = applyCastling(loaded.board, parts[3]),
                                 !.currentTurn = IF parts[2] = <<"w">> THEN WHITE ELSE BLACK],
                       parts, fromAlgebraic(parts[4]))

fieldsLoaded(g, parts) ==
  IF Len(parts) # 6 THEN LoadFailed(g)
  ELSE placementLoaded(g, parts, BoardLoadFEN(g.board, parts[1]))

(* Game.loadFEN: returns the success flag and the game after the call. *)
GameLoadFEN(g, fen) == fieldsLoaded(g, split(trim(fen), " "))

-----------------------------------------------------------------------------
(* Board.toFEN and Game.getFEN *)

(* Board.toFEN, one rank from column `col` on, emptyCount empty squares pending *)
RECURSIVE RankToFEN(_, _, _, _)
RankToFEN(board, row, col, emptyCount) ==
  IF col > 7 THEN (IF emptyCount > 0 THEN toText(emptyCount) ELSE <<>>)
  ELSE IF getPieceAt(board, Pos(row, col)) # NoPiece
  THEN (IF emptyCount > 0 THEN toText(emptyCount) ELSE <<>>)
       \o <<symbol(getPieceAt(board, Pos(row, col)))>>
       \o RankToFEN(board, row, col + 1, 0)
  ELSE RankToFEN(board, row, col + 1, emptyCount + 1)

RECURSIVE RanksToFEN(_, _)
RanksToFEN(board, row) ==
  RankToFEN(board, row, 0, 0)
  \o (IF row < 7 THEN <<"/">> \o RanksToFEN(board, row + 1) ELSE <<>>)

toFEN(board) == RanksToFEN(board, 0)

(* Game.getFEN: one castling letter, present when king and corner rook are unmoved *)
castlingLetter(board, color, col, letter) ==
  IF /\ getKing(board, color) # NoPos
     /\ ~getPieceAt(board, getKing(board, color)).hasMoved
     /\ findRook(board, color, col) # NoPos
     /\ ~getPieceAt(board, findRook(board, color, col)).hasMoved
  THEN <<letter>> ELSE <<>>

castlingField(board) ==
  LET castling == castlingLetter(board, WHITE, 7, "K") \o castlingLetter(board, WHITE, 0, "Q")
                  \o castlingLetter(board, BLACK, 7, "k") \o castlingLetter(board, BLACK, 0, "q")
  IN IF castling = <<>> THEN <<"-">> ELSE castling

(* String(n) of a number that may be negative or NaN *)
numberText(n) ==
  IF isNaN(n) THEN <<"N", "a", "N">>
  ELSE IF n < 0 THEN <<"-">> \o toText(0 - n)
  ELSE toText(n)

getFEN(g) ==
  toFEN(g.board)
  \o <<" ">> \o <<(IF g.currentTurn = WHITE THEN "w" ELSE "b")>>
  \o <<" ">> \o castlingField(g.board)
  \o <<" ">> \o (IF getEnPassantTarget(g.board) # NoPos
                 THEN toAlgebraic(getEnPassantTarget(g.board)) ELSE <<"-">>)
  \o <<" ">> \o numberText(g.halfMoveClock)
  \o <<" ">> \o numberText(g.fullMoveNumber)

-----------------------------------------------------------------------------
(* Game.undoLastMove *)

(* undoLastMove replaying every promotion with the default piece *)
replayPromotionDefault(move) == "none"

(* undoLastMove: the promotion letter handed to the replayed movePiece *)
replayPromotion(move) ==
  IF move.isPromotion /\ move.promotedTo # NoPiece
  THEN move.promotedTo.kind ELSE "none"

(* undoLastMove, one turn of the replay loop: the move is executed on tempBoard *)
(* whatever movePiece answers, then turn and counters are updated.             *)
replayMove(g, move) ==
  [g EXCEPT
     !.board = movePiece(@, fromAlgebraic(move.from).pos, fromAlgebraic(move.to).pos,
                         replayPromotion(move)).board,
     !.currentTurn = Opposite(@),
     !.halfMoveClock = IF move.piece.kind = PAWN \/ move.capturedPiece # NoPiece
                       THEN 0 ELSE Increment(@),
     !.fullMoveNumber = IF Opposite(g.currentTurn) = WHITE THEN Increment(@) ELSE @]

RECURSIVE replayMoves(_, _, _)
replayMoves(g, history, i) ==
  IF i > Len(history) THEN g
  ELSE replayMoves(replayMove(g, history[i]), history, i + 1)

(* undoLastMove, the state the replay starts from: both histories popped, a new *)
(* Board, White to move, the counters reset.                                   *)
replayStart(g) ==
  [g EXCEPT !.moveHistory = SubSeq(@, 1, Len(@) - 1),
            !.positionHistory = SubSeq(@, 1, Len(@) - 1),
            !.board = NewBoard,
            !.currentTurn = WHITE,
            !.halfMoveClock = 0,
            !.fullMoveNumber = 1]

(* Game.undoLastMove: returns the flag and the game after the call. *)
undoLastMove(g) ==
  IF Len(g.moveHistory) = 0 THEN [ok |-> FALSE, game |-> g]
  ELSE [ok |-> TRUE,
        game |-> statusUpdated(replayMoves(replayStart(g), replayStart(g).moveHistory, 1))]

-----------------------------------------------------------------------------
(* The FEN texts given to loadFEN. *)

(* 4k3/8/8/8/8/5r2/8/R3K2R w KQ - 0 1 : castling kingside passes f1, attacked by the rook on f3 *)
FEN_CASTLE_PASS ==
  <<"4", "k", "3", "/", "8", "/", "8", "/", "8", "/", "8", "/", "5", "r", "2", "/", "8", "/", "R", "3", "K", "2", "R", " ", "w", " ", "K", "Q", " ", "-", " ", "0", " ", "1">>

(* 4k3/8/8/8/8/6r1/8/4K2R w K - 0 1 : castling kingside ends on g1, attacked by the rook on g3 *)
FEN_CASTLE_DEST ==
  <<"4", "k", "3", "/", "8", "/", "8", "/", "8", "/", "8", "/", "6", "r", "1", "/", "8", "/", "4", "K", "2", "R", " ", "w", " ", "K", " ", "-", " ", "0", " ", "1">>

(* 6k1/5ppp/8/8/8/8/8/R3K3 w Q - 99 80 : Ra8 mates on the ply that takes the half-move clock to 100 *)
FEN_MATE_IN_ONE ==
  <<"6", "k", "1", "/", "5", "p", "p", "p", "/", "8", "/", "8", "/", "8", "/", "8", "/", "8", "/", "R", "3", "K", "3", " ", "w", " ", "Q", " ", "-", " ", "9", "9", " ", "8", "0">>

(* rnbqkbnr/pppp1ppp/8/4p3/6P1/5P2/PPPPP2P/RNBQKBNR b KQkq g3 0 2 : after 1.f3 e5 2.g4: Qh4 mates *)
FEN_FOOLS_MATE ==
  <<"r", "n", "b", "q", "k", "b", "n", "r", "/", "p", "p", "p", "p", "1", "p", "p", "p", "/", "8", "/", "4", "p", "3", "/", "6", "P", "1", "/", "5", "P", "2", "/", "P", "P", "P", "P", "P", "2", "P", "/", "R", "N", "B", "Q", "K", "B", "N", "R", " ", "b", " ", "K", "Q", "k", "q", " ", "g", "3", " ", "0", " ", "2">>

(* 8/8/8/8/8/8/8/K6k w - - 0 1 : the bare-kings scenario *)
FEN_BARE_KINGS ==
  <<"8", "/", "8", "/", "8", "/", "8", "/", "8", "/", "8", "/", "8", "/", "K", "6", "k", " ", "w", " ", "-", " ", "-", " ", "0", " ", "1">>

(* k7/8/1K1B4/8/8/8/8/8 b - - 0 1 : Black is stalemated with king and bishop against king *)
FEN_STALEMATE_KB ==
  <<"k", "7", "/", "8", "/", "1", "K", "1", "B", "4", "/", "8", "/", "8", "/", "8", "/", "8", "/", "8", " ", "b", " ", "-", " ", "-", " ", "0", " ", "1">>

(* k7/8/8/3b4/8/8/8/K2B4 w - - 0 1 : bishops of opposite owners on squares of equal parity *)
FEN_BISHOPS_SAME ==
  <<"k", "7", "/", "8", "/", "8", "/", "3", "b", "4", "/", "8", "/", "8", "/", "8", "/", "K", "2", "B", "4", " ", "w", " ", "-", " ", "-", " ", "0", " ", "1">>

(* k7/8/8/3b4/8/8/8/K3B3 b - - 0 1 : bishops of opposite owners on squares of different parity *)
FEN_BISHOPS_DIFF ==
  <<"k", "7", "/", "8", "/", "8", "/", "3", "b", "4", "/", "8", "/", "8", "/", "8", "/", "K", "3", "B", "3", " ", "b", " ", "-", " ", "-", " ", "0", " ", "1">>

(* 7k/P7/8/8/8/8/8/K7 w - - 0 1 : a pawn one step from promotion, three pieces on the board *)
FEN_PROMOTE ==
  <<"7", "k", "/", "P", "7", "/", "8", "/", "8", "/", "8", "/", "8", "/", "8", "/", "K", "7", " ", "w", " ", "-", " ", "-", " ", "0", " ", "1">>

(* rnbqkbnr/pppppppp/8/8/8/8/PPPPPPPP/RNBQKBNR w KQkq - 98 60 : the standard placement with the half-move clock at 98 *)
FEN_KNIGHTS_98 ==
  <<"r", "n", "b", "q", "k", "b", "n", "r", "/", "p", "p", "p", "p", "p", "p", "p", "p", "/", "8", "/", "8", "/", "8", "/", "8", "/", "P", "P", "P", "P", "P", "P", "P", "P", "/", "R", "N", "B", "Q", "K", "B", "N", "R", " ", "w", " ", "K", "Q", "k", "q", " ", "-", " ", "9", "8", " ", "6", "0">>

(* 8/8/8/8/8/8/8/K6k w - - : four fields instead of six *)
FEN_BAD_FIELDS ==
  <<"8", "/", "8", "/", "8", "/", "8", "/", "8", "/", "8", "/", "8", "/", "K", "6", "k", " ", "w", " ", "-", " ", "-">>

(* 8/8/8/8/8/8/7/K6k w - - 0 1 : a rank of seven files *)
FEN_BAD_RANK ==
  <<"8", "/", "8", "/", "8", "/", "8", "/", "8", "/", "8", "/", "7", "/", "K", "6", "k", " ", "w", " ", "-", " ", "-", " ", "0", " ", "1">>

(* 8/8/8/8/8/8/8/K6k b - - x 1 : a half-move clock that is no number *)
FEN_BAD_CLOCK ==
  <<"8", "/", "8", "/", "8", "/", "8", "/", "8", "/", "8", "/", "8", "/", "K", "6", "k", " ", "b", " ", "-", " ", "-", " ", "x", " ", "1">>

(* k7/8/2KB4/8/8/8/8/8 w - - 0 1 : Kb6 stalemates Black with king and bishop against king *)
FEN_STALEMATE_IN_ONE ==
  <<"k", "7", "/", "8", "/", "2", "K", "B", "4", "/", "8", "/", "8", "/", "8", "/", "8", "/", "8", " ", "w", " ", "-", " ", "-", " ", "0", " ", "1">>

(* 4k3/8/8/8/3pP3/8/8/4K3 b - e3 0 1 : the pawn on d4 may capture en passant on e3 *)
FEN_EN_PASSANT ==
  <<"4", "k", "3", "/", "8", "/", "8", "/", "8", "/", "3", "p", "P", "3", "/", "8", "/", "8", "/", "4", "K", "3", " ", "b", " ", "-", " ", "e", "3", " ", "0", " ", "1">>

(* k7/8/8/8/8/8/8/K1B1B3 b - - 0 1 : four pieces, both bishops of one owner, on squares of one colour *)
FEN_BISHOPS_OWNER ==
  <<"k", "7", "/", "8", "/", "8", "/", "8", "/", "8", "/", "8", "/", "8", "/", "K", "1", "B", "1", "B", "3", " ", "b", " ", "-", " ", "-", " ", "0", " ", "1">>

(* 8/8/8/8/8/8/8/K6k b - - 0 x : a full-move number that is no number *)
FEN_BAD_FULLMOVE ==
  <<"8", "/", "8", "/", "8", "/", "8", "/", "8", "/", "8", "/", "8", "/", "K", "6", "k", " ", "b", " ", "-", " ", "-", " ", "0", " ", "x">>

(* 8/8/8/8/8/8/K6k w - - 0 1 : seven ranks *)
FEN_BAD_RANK_COUNT ==
  <<"8", "/", "8", "/", "8", "/", "8", "/", "8", "/", "8", "/", "K", "6", "k", " ", "w", " ", "-", " ", "-", " ", "0", " ", "1">>

(* 8/8/8/8/8/8/8/K5xk w - - 0 1 : a character that names no piece *)
FEN_BAD_CHAR ==
  <<"8", "/", "8", "/", "8", "/", "8", "/", "8", "/", "8", "/", "8", "/", "K", "5", "x", "k", " ", "w", " ", "-", " ", "-", " ", "0", " ", "1">>

(* 8/8/8/8/8/8/8/K6k b - z9 0 1 : an en passant target that is no square *)
FEN_BAD_EP ==
  <<"8", "/", "8", "/", "8", "/", "8", "/", "8", "/", "8", "/", "8", "/", "K", "6", "k", " ", "b", " ", "-", " ", "z", "9", " ", "0", " ", "1">>

(* 4k3/8/8/8/8/8/4P3/4K3 w - e3 0 1 : an en passant target in front of a pawn of the side to move *)
FEN_EP_AHEAD ==
  <<"4", "k", "3", "/", "8", "/", "8", "/", "8", "/", "8", "/", "8", "/", "4", "P", "3", "/", "4", "K", "3", " ", "w", " ", "-", " ", "e", "3", " ", "0", " ", "1">>

(* k7/8/8/8/8/8/p7/1N5K b - - 0 1 : a black pawn that promotes on a1, or on b1 taking the knight *)
FEN_PROMOTE_BLACK ==
  <<"k", "7", "/", "8", "/", "8", "/", "8", "/", "8", "/", "8", "/", "p", "7", "/", "1", "N", "5", "K", " ", "b", " ", "-", " ", "-", " ", "0", " ", "1">>

(* The FEN texts loaded before the plies played with every (from, to) pair. *)
FENInputs ==
  {FEN_CASTLE_PASS, FEN_CASTLE_DEST, FEN_MATE_IN_ONE, FEN_FOOLS_MATE, FEN_BARE_KINGS,
   FEN_STALEMATE_KB, FEN_STALEMATE_IN_ONE, FEN_BISHOPS_SAME, FEN_BISHOPS_DIFF,
   FEN_BISHOPS_OWNER, FEN_PROMOTE, FEN_EN_PASSANT, FEN_EP_AHEAD,
   FEN_PROMOTE_BLACK,
   FEN_BAD_FIELDS, FEN_BAD_RANK, FEN_BAD_CLOCK, FEN_BAD_FULLMOVE,
   FEN_BAD_RANK_COUNT, FEN_BAD_CHAR, FEN_BAD_EP}

(* The FEN texts loaded before the plies played with the moves of LineMoves. *)
LineFENInputs ==
  {FEN_KNIGHTS_98, FEN_BARE_KINGS, FEN_MATE_IN_ONE, FEN_STALEMATE_IN_ONE, FEN_FOOLS_MATE,
   FEN_BAD_FIELDS, FEN_BAD_RANK, FEN_BAD_CLOCK, FEN_BAD_FULLMOVE}

PromotionInputs == {QUEEN, ROOK, BISHOP, KNIGHT, "none"}

(* The number of plies played with every (from, to) pair as input. *)
MaxPlies == 1

(* The moves played in the long lines: knight and king shuffles, a rook mate, *)
(* a stalemating king step.                                                 *)
LineMoves ==
  {<<<<"g", "1">>, <<"f", "3">>>>, <<<<"f", "3">>, <<"g", "1">>>>,
   <<<<"g", "8">>, <<"f", "6">>>>, <<<<"f", "6">>, <<"g", "8">>>>,
   <<<<"b", "1">>, <<"c", "3">>>>, <<<<"c", "3">>, <<"b", "1">>>>,
   <<<<"b", "8">>, <<"c", "6">>>>, <<<<"c", "6">>, <<"b", "8">>>>,
   <<<<"a", "1">>, <<"a", "2">>>>, <<<<"a", "2">>, <<"a", "1">>>>,
   <<<<"h", "1">>, <<"h", "2">>>>, <<<<"h", "2">>, <<"h", "1">>>>,
   <<<<"a", "1">>, <<"a", "8">>>>, <<<<"c", "6">>, <<"b", "6">>>>}

(* The number of plies played with the moves of LineMoves as input. *)
MaxLinePlies == 8

(* The games played move by move.  Each move is <<from, to, promotionPiece>>. *)

(* 1.e4 a6 2.e5 d5 3.exd6 (en passant) cxd6 4.Nf3 h6 5.Bc4 g6 6.O-O *)
GAME_EN_PASSANT_CASTLE ==
  <<<<<<"e", "2">>, <<"e", "4">>, QUEEN>>, <<<<"a", "7">>, <<"a", "6">>, QUEEN>>,
    <<<<"e", "4">>, <<"e", "5">>, QUEEN>>, <<<<"d", "7">>, <<"d", "5">>, QUEEN>>,
    <<<<"e", "5">>, <<"d", "6">>, QUEEN>>, <<<<"c", "7">>, <<"d", "6">>, QUEEN>>,
    <<<<"g", "1">>, <<"f", "3">>, QUEEN>>, <<<<"h", "7">>, <<"h", "6">>, QUEEN>>,
    <<<<"f", "1">>, <<"c", "4">>, QUEEN>>, <<<<"g", "7">>, <<"g", "6">>, QUEEN>>,
    <<<<"e", "1">>, <<"g", "1">>, QUEEN>>>>

(* 1.a4 b5 2.axb5 a6 3.bxa6 Bb7 4.axb7 Nc6 5.bxa8=Q Qb8 *)
GAME_PROMOTE_QUEEN ==
  <<<<<<"a", "2">>, <<"a", "4">>, QUEEN>>, <<<<"b", "7">>, <<"b", "5">>, QUEEN>>,
    <<<<"a", "4">>, <<"b", "5">>, QUEEN>>, <<<<"a", "7">>, <<"a", "6">>, QUEEN>>,
    <<<<"b", "5">>, <<"a", "6">>, QUEEN>>, <<<<"c", "8">>, <<"b", "7">>, QUEEN>>,
    <<<<"a", "6">>, <<"b", "7">>, QUEEN>>, <<<<"b", "8">>, <<"c", "6">>, QUEEN>>,
    <<<<"b", "7">>, <<"a", "8">>, QUEEN>>, <<<<"d", "8">>, <<"b", "8">>, QUEEN>>>>

(* The same game with 5.bxa8=N *)
GAME_PROMOTE_KNIGHT ==
  <<<<<<"a", "2">>, <<"a", "4">>, QUEEN>>, <<<<"b", "7">>, <<"b", "5">>, QUEEN>>,
    <<<<"a", "4">>, <<"b", "5">>, QUEEN>>, <<<<"a", "7">>, <<"a", "6">>, QUEEN>>,
    <<<<"b", "5">>, <<"a", "6">>, QUEEN>>, <<<<"c", "8">>, <<"b", "7">>, QUEEN>>,
    <<<<"a", "6">>, <<"b", "7">>, QUEEN>>, <<<<"b", "8">>, <<"c", "6">>, QUEEN>>,
    <<<<"b", "7">>, <<"a", "8">>, KNIGHT>>, <<<<"d", "8">>, <<"b", "8">>, QUEEN>>>>

(* 1.Nf3 Nf6 2.d3 d6 3.Nbd2 Nbd7: twice a knight moves to a square the other *)
(* knight of its colour could move to as well.                              *)
GAME_TWO_KNIGHTS ==
  <<<<<<"g", "1">>, <<"f", "3">>, QUEEN>>, <<<<"g", "8">>, <<"f", "6">>, QUEEN>>,
    <<<<"d", "2">>, <<"d", "3">>, QUEEN>>, <<<<"d", "7">>, <<"d", "6">>, QUEEN>>,
    <<<<"b", "1">>, <<"d", "2">>, QUEEN>>, <<<<"b", "8">>, <<"d", "7">>, QUEEN>>>>

(* 1.e4 d5 2.Bb5+ Nc6: a check and the knight that blocks it *)
GAME_BISHOP_CHECK ==
  <<<<<<"e", "2">>, <<"e", "4">>, QUEEN>>, <<<<"d", "7">>, <<"d", "5">>, QUEEN>>,
    <<<<"f", "1">>, <<"b", "5">>, QUEEN>>, <<<<"b", "8">>, <<"c", "6">>, QUEEN>>>>
(* 1.e4 d5 2.Bb5+ Nc6 3.a3 and the pinned knight asked to go to e5 *)
GAME_PINNED_KNIGHT ==
  <<<<<<"e", "2">>, <<"e", "4">>, QUEEN>>, <<<<"d", "7">>, <<"d", "5">>, QUEEN>>,
    <<<<"f", "1">>, <<"b", "5">>, QUEEN>>, <<<<"b", "8">>, <<"c", "6">>, QUEEN>>,
    <<<<"a", "2">>, <<"a", "3">>, QUEEN>>, <<<<"c", "6">>, <<"e", "5">>, QUEEN>>>>

(* Ra8 mate, on the position of FEN_MATE_IN_ONE; then Kg2 of the black king of *)
(* FEN_BAD_CLOCK                                                             *)
GAME_ROOK_MATE ==
  <<<<<<"a", "1">>, <<"a", "8">>, QUEEN>>, <<<<"h", "1">>, <<"g", "2">>, QUEEN>>>>

Games ==
  {GAME_EN_PASSANT_CASTLE, GAME_PROMOTE_QUEEN, GAME_PROMOTE_KNIGHT, GAME_TWO_KNIGHTS,
   GAME_BISHOP_CHECK, GAME_PINNED_KNIGHT, GAME_ROOK_MATE}

(* The FEN texts loaded before the moves of Games. *)
GameFENInputs == {FEN_MATE_IN_ONE, FEN_KNIGHTS_98, FEN_BAD_CLOCK}

(* The number of plies played of the games of Games. *)
MaxGamePlies == 11

-----------------------------------------------------------------------------
(* The relay server and the peer: their inputs and their state at the start *)

(* The sockets that are connected at the start, the ids generateGameId draws  *)
(* from, and the moves sockets send.                                          *)
Sockets == {"s1", "s2", "s3"}
GameIds == {"A", "B"}
NoRelayMove == [from |-> <<>>, to |-> <<>>, promotion |-> "none"]
RelayMoves == {[from |-> <<"a", "7">>, to |-> <<"a", "8">>, promotion |-> KNIGHT]}

(* The number of moves a room records. *)
MaxRelayMoves == 2

(* const games = {}: no room; every socket connected and in no room, nothing *)
(* handled and nothing emitted.                                              *)
NoGames ==
  [games |-> <<>>,
   rooms |-> [gameId \in GameIds |-> {}],
   connected |-> Sockets,
   handled |-> [event |-> "none", socket |-> "none", gameId |-> "none", move |-> NoRelayMove],
   emitted |-> {}]

(* let isOnlineGame = false; let canMakeMove = false *)
LocalGame == [isOnlineGame |-> FALSE, canMakeMove |-> FALSE]

(* The two browsers of an online game, the moves they click, and the number *)
(* of plies on a board and of clicks on New Game.                           *)
Browsers == {"s1", "s2"}
OnlineMoves ==
  {[from |-> <<"e", "2">>, to |-> <<"e", "4">>, promotion |-> "none"],
   [from |-> <<"e", "7">>, to |-> <<"e", "5">>, promotion |-> "none"],
   [from |-> <<"g", "1">>, to |-> <<"f", "3">>, promotion |-> "none"]}
MaxOnlinePlies == 2
MaxRestarts == 1

(* A browser before it is in a game: the module state of chess-network.js  *)
(* (gameId, playerColor), of chess-ui-manager.js (isOnlineGame,            *)
(* canMakeMove) and the Game of chess-ui.js.                               *)
OfflineBrowser ==
  [game |-> NewGame, isOnlineGame |-> FALSE, canMakeMove |-> FALSE,
   gameId |-> "none", playerColor |-> "none"]

(* Two browsers, connected, and nothing in flight between them and the relay: *)
(* toServer[s] are the events socket s has emitted and the relay has not yet  *)
(* handled, toBrowser[s] the events emitted to s that s has not yet handled,  *)
(* both in the order of emission.  The other fields record what happened:    *)
(* the number of clicks on New Game, whether the relay has handled the last  *)
(* of them, whether a square was clicked since, and whether the relay has    *)
(* recorded a move while the room had one player.                            *)
Offline ==
  [browsers |-> [s \in Browsers |-> OfflineBrowser],
   toServer |-> [s \in Browsers |-> <<>>],
   toBrowser |-> [s \in Browsers |-> <<>>],
   restarts |-> 0, restart |-> "none", clicked |-> FALSE, unheard |-> FALSE]

-----------------------------------------------------------------------------
(* The state machine: one Game, and the last call with the value it returned. *)

(* What forward play had produced: the parts of a game that undoLastMove is to *)
(* bring back.                                                                *)
snapshot(g) ==
  [pieces |-> g.board.pieces, enPassantTarget |-> g.board.enPassantTarget,
   currentTurn |-> g.currentTurn, halfMoveClock |-> g.halfMoveClock,
   fullMoveNumber |-> g.fullMoveNumber, gameStatus |-> g.gameStatus]

(* past records, for every move of moveHistory, the snapshot of the game as it *)
(* was immediately before that move was made; fromFEN tells that loadFEN was  *)
(* called on the game.                                                        *)
Init ==
  /\ game = NewGame
  /\ ret = [op |-> "new", args |-> NoArgs, success |-> TRUE, error |-> "", move |-> NoMove,
            moves |-> {}]
  /\ past = <<>>
  /\ fromFEN = FALSE
  /\ relay = NoGames
  /\ peer = LocalGame
  /\ online = Offline

Called(op, args, r) ==
  [op |-> op, args |-> args, success |-> r.success, error |-> r.error, move |-> r.move,
   moves |-> {}]

(* The calls after a rejected makeMove or after a query are the calls that     *)
(* could have been made in its place, so a run is followed no further than its *)
(* first rejected move, and after a query only by the same query again.        *)
CanCall ==
  /\ ret.success \/ ret.op = "loadFEN"
  /\ ret.op # "getLegalMovesForPiece"

CanMove(maxPlies) ==
  /\ CanCall
  /\ Len(game.moveHistory) < maxPlies

Call(from, to, promotionPiece) ==
  LET r == makeMove(game, from, to, promotionPiece)
  IN /\ game' = r.game
     /\ ret' = Called("makeMove", MoveArgs(from, to, promotionPiece), r.ret)
     /\ past' = IF r.ret.success THEN Append(past, snapshot(game)) ELSE past
     /\ UNCHANGED <<fromFEN, relay, peer, online>>

(* A promotion kind is chosen for a pawn standing one step from its last rank; *)
(* every other call leaves the parameter at its default.                       *)
PromotionChoices(from) ==
  LET piece == getPieceAt(game.board, from)
  IN IF piece.kind = PAWN /\ from.row = (IF piece.color = WHITE THEN 1 ELSE 6)
     THEN PromotionInputs ELSE {QUEEN}

(* makeMove with every (from, to) pair as input, for MaxPlies plies. *)
MakeMove ==
  /\ CanMove(MaxPlies)
  /\ \E from, to \in Squares : \E promotionPiece \in PromotionChoices(from) :
       Call(from, to, promotionPiece)

(* makeMove with the moves of LineMoves as input, for MaxLinePlies plies. *)
MakeLineMove ==
  /\ CanMove(MaxLinePlies)
  /\ \E m \in LineMoves : Call(fromAlgebraic(m[1]).pos, fromAlgebraic(m[2]).pos, QUEEN)

LoadCall(fen) ==
  LET r == GameLoadFEN(game, fen)
  IN /\ game' = r.game
     /\ ret' = Called("loadFEN", [NoArgs EXCEPT !.fen = fen],
                      IF r.ok THEN Success(NoMove) ELSE Failure(""))
     /\ past' = IF r.ok THEN <<>> ELSE past
     /\ fromFEN' = TRUE
     /\ UNCHANGED <<relay, peer, online>>

(* loadFEN on the game just constructed, before the plies of MakeMove. *)
LoadFEN ==
  /\ ret.op = "new"
  /\ \E fen \in FENInputs : LoadCall(fen)

(* loadFEN on the game just constructed, before the plies of MakeLineMove. *)
LoadLineFEN ==
  /\ ret.op = "new"
  /\ \E fen \in LineFENInputs : LoadCall(fen)

(* undoLastMove, on an empty history too. *)
UndoLastMove ==
  /\ CanCall
  /\ LET r == undoLastMove(game)
     IN /\ game' = r.game
        /\ ret' = Called("undoLastMove", NoArgs, IF r.ok THEN Success(NoMove) ELSE Failure(""))
        /\ past' = IF r.ok THEN SubSeq(past, 1, Len(past) - 1) ELSE past
        /\ UNCHANGED <<fromFEN, relay, peer, online>>

(* board.getLegalMovesForPiece(piece) for a piece of the side to move, after   *)
(* the construction, a load or a move, and a second time for the same piece.  *)
GetLegalMovesForPiece ==
  /\ ret.success /\ ret.op # "undoLastMove"
  /\ \E from \in getPiecesByColor(game.board, game.currentTurn) :
       /\ ret.op = "getLegalMovesForPiece" => from = ret.args.from
       /\ \E r \in {queryLegalMoves(game.board, from)} :
            /\ game' = [game EXCEPT !.board = r.board]
            /\ ret' = [Called("getLegalMovesForPiece", [NoArgs EXCEPT !.from = from],
                              Success(NoMove))
                         EXCEPT !.moves = r.moves]
       /\ UNCHANGED <<past, fromFEN, relay, peer, online>>
(* reset(): the game is the game of the constructor again. *)
Reset ==
  /\ CanCall
  /\ game' = NewGame
  /\ ret' = Called("reset", NoArgs, Success(NoMove))
  /\ past' = <<>>
  /\ fromFEN' = FALSE
  /\ UNCHANGED <<relay, peer, online>>

(* `line` has more moves than were played and starts with the moves played. *)
Continues(line, history) ==
  /\ Len(history) < Len(line)
  /\ \A i \in 1..Len(history) : history[i].from = line[i][1] /\ history[i].to = line[i][2]

(* makeMove with the next move of a game of Games that the moves played so far *)
(* are the beginning of.                                                     *)
PlayMove ==
  /\ CanMove(MaxGamePlies)
  /\ \E line \in {l \in Games : Continues(l, game.moveHistory)} :
       Call(fromAlgebraic(line[Len(game.moveHistory) + 1][1]).pos,
            fromAlgebraic(line[Len(game.moveHistory) + 1][2]).pos,
            line[Len(game.moveHistory) + 1][3])

(* loadFEN on the game just constructed, before the moves of PlayMove, and on *)
(* a game that a move has ended in checkmate.                                *)
LoadGameFEN ==
  /\ \/ ret.op = "new"
     \/ /\ ret.op = "makeMove" /\ ret.success
        /\ game.gameStatus \in {CHECKMATE_WHITE, CHECKMATE_BLACK}
  /\ \E fen \in GameFENInputs : LoadCall(fen)

Next == MakeMove \/ LoadFEN

Spec == Init /\ [][Next]_vars

NextLine == MakeLineMove \/ LoadLineFEN

SpecLine == Init /\ [][NextLine]_vars

NextGame == PlayMove \/ LoadGameFEN \/ UndoLastMove \/ GetLegalMovesForPiece \/ Reset

SpecGame == Init /\ [][NextGame]_vars

-----------------------------------------------------------------------------
(* The relay server: one action per socket event *)

(* The event a handler was called for. *)
Handled(event, socket, gameId, move) ==
  [event |-> event, socket |-> socket, gameId |-> gameId, move |-> move]

(* emit of `event` to every socket of `to` *)
Emit(to, event, gameId, color, move) ==
  {[to |-> s, event |-> event, gameId |-> gameId, color |-> color, move |-> move] : s \in to}

(* games[gameId], defined for the ids of DOMAIN relay.games *)
HasGame(gameId) == gameId \in DOMAIN relay.games
(* find without the test of the socket id: the first participant is found for *)
(* every sender.                                                              *)
PlayerEntriesOfAnyone(players, socket) == players

(* The entries of `players` for the socket, in the order of the list. *)
PlayerEntries(players, socket) == SelectSeq(players, LAMBDA pl : pl.id = socket)

(* socket.on('create-game'), with the id generateGameId drew: the relay after *)
(* the handler ran for the socket.                                           *)
onCreateGame(r, socket, gameId) ==
  [r EXCEPT
     !.games = [g \in DOMAIN r.games \cup {gameId} |->
                  IF g = gameId
                  THEN [players |-> <<[id |-> socket, color |-> WHITE]>>,
                        currentTurn |-> WHITE, moves |-> <<>>]
                  ELSE r.games[g]],
     !.rooms[gameId] = @ \cup {socket},
     !.handled = Handled("create-game", socket, gameId, NoRelayMove),
     !.emitted = Emit({socket}, "game-created", gameId, WHITE, NoRelayMove)]

(* socket.on('join-game') *)
onJoinGame(r, socket, gameId) ==
  IF gameId \notin DOMAIN r.games
  THEN [r EXCEPT
          !.handled = Handled("join-game", socket, gameId, NoRelayMove),
          !.emitted = Emit({socket}, "error: Game not found", gameId, "none", NoRelayMove)]
  ELSE IF Len(r.games[gameId].players) >= 2
  THEN [r EXCEPT
          !.handled = Handled("join-game", socket, gameId, NoRelayMove),
          !.emitted = Emit({socket}, "error: Game is full", gameId, "none", NoRelayMove)]
  ELSE [r EXCEPT
          !.games[gameId].players = Append(@, [id |-> socket, color |-> BLACK]),
          !.rooms[gameId] = @ \cup {socket},
          !.handled = Handled("join-game", socket, gameId, NoRelayMove),
          !.emitted = Emit({socket}, "game-joined", gameId, BLACK, NoRelayMove)
                      \cup Emit(r.rooms[gameId] \ {socket},
                                "opponent-joined", gameId, "none", NoRelayMove)]

(* socket.on('move') *)
onMove(r, socket, gameId, move) ==
  IF gameId \notin DOMAIN r.games
  THEN [r EXCEPT
          !.handled = Handled("move", socket, gameId, move),
          !.emitted = Emit({socket}, "error: Game not found", gameId, "none", NoRelayMove)]
  ELSE IF PlayerEntries(r.games[gameId].players, socket) = <<>>
  THEN [r EXCEPT
          !.handled = Handled("move", socket, gameId, move),
          !.emitted = Emit({socket}, "error: Player not found in this game", gameId,
                           "none", NoRelayMove)]
  ELSE IF PlayerEntries(r.games[gameId].players, socket)[1].color
            # r.games[gameId].currentTurn
  THEN [r EXCEPT
          !.handled = Handled("move", socket, gameId, move),
          !.emitted = Emit({socket}, "error: Not your turn", gameId, "none", NoRelayMove)]
  ELSE [r EXCEPT
          !.games[gameId].moves =
             Append(@, [move |-> move,
                        player |-> PlayerEntries(r.games[gameId].players, socket)[1].color]),
          !.games[gameId].currentTurn = Opposite(@),
          !.handled = Handled("move", socket, gameId, move),
          !.emitted = Emit(r.rooms[gameId] \ {socket}, "opponent-move", gameId, "none", move)]

(* socket.on('restart-game') *)
onRestartGame(r, socket, gameId) ==
  IF gameId \notin DOMAIN r.games
  THEN [r EXCEPT
          !.handled = Handled("restart-game", socket, gameId, NoRelayMove),
          !.emitted = Emit({socket}, "error: Game not found", gameId, "none", NoRelayMove)]
  ELSE [r EXCEPT
          !.games[gameId].currentTurn = WHITE,
          !.games[gameId].moves = <<>>,
          !.handled = Handled("restart-game", socket, gameId, NoRelayMove),
          !.emitted = Emit(r.rooms[gameId], "game-restart", gameId, "none", NoRelayMove)]

(* A connected socket emits create-game; generateGameId is taken to draw an id *)
(* no room has.                                                               *)
CreateGame ==
  /\ \E socket \in relay.connected : \E gameId \in GameIds \ DOMAIN relay.games :
       relay' = onCreateGame(relay, socket, gameId)
  /\ UNCHANGED <<game, ret, past, fromFEN, peer, online>>
(* join-game without the test of players.length: every join of a room that *)
(* exists is registered.                                                    *)
JoinGameNeverFull ==
  /\ \E socket \in relay.connected : \E gameId \in DOMAIN relay.games :
       relay' = [relay EXCEPT
                   !.games[gameId].players = Append(@, [id |-> socket, color |-> BLACK]),
                   !.rooms[gameId] = @ \cup {socket},
                   !.handled = Handled("join-game", socket, gameId, NoRelayMove),
                   !.emitted = Emit({socket}, "game-joined", gameId, BLACK, NoRelayMove)]
  /\ UNCHANGED <<game, ret, past, fromFEN, peer, online>>

(* A connected socket emits join-game with an id. *)
JoinGame ==
  /\ \E socket \in relay.connected : \E gameId \in GameIds :
       relay' = onJoinGame(relay, socket, gameId)
  /\ UNCHANGED <<game, ret, past, fromFEN, peer, online>>

(* A connected socket emits move, for as long as the room records fewer than *)
(* MaxRelayMoves moves.                                                      *)
RelayMove ==
  /\ \E socket \in relay.connected : \E gameId \in GameIds : \E move \in RelayMoves :
       /\ HasGame(gameId) => Len(relay.games[gameId].moves) < MaxRelayMoves
       /\ relay' = onMove(relay, socket, gameId, move)
  /\ UNCHANGED <<game, ret, past, fromFEN, peer, online>>

(* A connected socket emits restart-game with an id. *)
RestartGame ==
  /\ \E socket \in relay.connected : \E gameId \in GameIds :
       relay' = onRestartGame(relay, socket, gameId)
  /\ UNCHANGED <<game, ret, past, fromFEN, peer, online>>

(* socket.on('disconnect'): the socket has left its rooms; every game it is a *)
(* player of is told, and is deleted when it has one player or none.         *)
Disconnect ==
  /\ \E socket \in relay.connected :
       relay' = [relay EXCEPT
         !.games = [g \in {id \in DOMAIN relay.games :
                             \/ PlayerEntries(relay.games[id].players, socket) = <<>>
                             \/ Len(relay.games[id].players) > 1} |-> relay.games[g]],
         !.rooms = [g \in GameIds |-> relay.rooms[g] \ {socket}],
         !.connected = @ \ {socket},
         !.handled = Handled("disconnect", socket, "none", NoRelayMove),
         !.emitted = UNION {Emit(relay.rooms[g] \ {socket}, "opponent-disconnected", g, "none",
                                 NoRelayMove) :
                            g \in {id \in DOMAIN relay.games :
                                     PlayerEntries(relay.games[id].players, socket) # <<>>}}]
  /\ UNCHANGED <<game, ret, past, fromFEN, peer, online>>

NextRelay == CreateGame \/ JoinGame \/ RelayMove \/ RestartGame \/ Disconnect

SpecRelay == Init /\ [][NextRelay]_vars

-----------------------------------------------------------------------------
(* The peer: the UI manager of one browser, its Game, and the events it gets *)

(* The moves made on the board of the peer and the moves that arrive from *)
(* the relay, as {from, to} in algebraic text.                            *)
PeerMoves ==
  {<<<<"e", "2">>, <<"e", "4">>>>, <<<<"e", "7">>, <<"e", "5">>>>,
   <<<<"d", "1">>, <<"h", "5">>>>, <<<<"b", "8">>, <<"c", "6">>>>,
   <<<<"g", "1">>, <<"f", "3">>>>, <<<<"g", "8">>, <<"f", "6">>>>,
   <<<<"e", "2">>, <<"e", "5">>>>}
OpponentMoves == PeerMoves \cup {<<<<"z", "9">>, <<"e", "4">>>>, <<<<>>, <<"e", "4">>>>}

(* The number of plies played on the board of the peer. *)
MaxPeerPlies == 3

(* onGameCreated (White goes first) and onGameJoined (Black waits): the game *)
(* is online and the board is reset.                                         *)
GameStarted ==
  /\ \E created \in BOOLEAN :
       /\ peer' = [isOnlineGame |-> TRUE, canMakeMove |-> created]
       /\ ret' = Called(IF created THEN "onGameCreated" ELSE "onGameJoined", NoArgs,
                        Success(NoMove))
  /\ game' = NewGame
  /\ past' = <<>>
  /\ UNCHANGED <<fromFEN, relay, online>>

(* wrappedMakeMove, called by handleSquareClick when canPlayerMove() holds: *)
(* the game is not online, or canMakeMove is set.                           *)
LocalMove ==
  /\ ~peer.isOnlineGame \/ peer.canMakeMove
  /\ Len(game.moveHistory) < MaxPeerPlies
  /\ \E m \in PeerMoves :
       \E r \in {makeMove(game, fromAlgebraic(m[1]).pos, fromAlgebraic(m[2]).pos, "none")} :
         /\ game' = r.game
         /\ ret' = Called("makeMove",
                          MoveArgs(fromAlgebraic(m[1]).pos, fromAlgebraic(m[2]).pos, "none"),
                          r.ret)
         /\ past' = IF r.ret.success THEN Append(past, snapshot(game)) ELSE past
         /\ peer' = IF r.ret.success /\ peer.isOnlineGame
                    THEN [peer EXCEPT !.canMakeMove = FALSE] ELSE peer
  /\ UNCHANGED <<fromFEN, relay, online>>

(* handleOpponentMove without the test of the result. *)
HandleOpponentMoveUntested ==
  /\ peer.isOnlineGame
  /\ Len(game.moveHistory) < MaxPeerPlies
  /\ \E m \in PeerMoves :
       \E r \in {makeMove(game, fromAlgebraic(m[1]).pos, fromAlgebraic(m[2]).pos, "none")} :
         /\ game' = r.game
         /\ ret' = Called("opponent-move",
                          MoveArgs(fromAlgebraic(m[1]).pos, fromAlgebraic(m[2]).pos, "none"),
                          r.ret)
         /\ past' = IF r.ret.success THEN Append(past, snapshot(game)) ELSE past
         /\ peer' = [peer EXCEPT !.canMakeMove = TRUE]
  /\ UNCHANGED <<fromFEN, relay, online>>

(* socket.on('opponent-move') and handleOpponentMove(data): an event without   *)
(* from or to is dropped; Position.fromAlgebraic throws on text that is no     *)
(* square, before the Game is called; otherwise ChessUI.makeOpponentMove calls *)
(* game.makeMove, and canMakeMove is set when it succeeded.                    *)
HandleOpponentMove ==
  /\ peer.isOnlineGame
  /\ Len(game.moveHistory) < MaxPeerPlies
  /\ \E m \in OpponentMoves :
       IF m[1] = <<>> \/ m[2] = <<>>
       THEN /\ ret' = Called("opponent-move", NoArgs, Failure("dropped"))
            /\ UNCHANGED <<game, past, peer>>
       ELSE IF ~fromAlgebraic(m[1]).ok \/ ~fromAlgebraic(m[2]).ok
       THEN /\ ret' = Called("opponent-move", NoArgs, Failure("Invalid algebraic position"))
            /\ UNCHANGED <<game, past, peer>>
       ELSE \E r \in {makeMove(game, fromAlgebraic(m[1]).pos, fromAlgebraic(m[2]).pos,
                               "none")} :
              /\ game' = r.game
              /\ ret' = Called("opponent-move",
                               MoveArgs(fromAlgebraic(m[1]).pos, fromAlgebraic(m[2]).pos,
                                        "none"),
                               r.ret)
              /\ past' = IF r.ret.success THEN Append(past, snapshot(game)) ELSE past
              /\ peer' = IF r.ret.success THEN [peer EXCEPT !.canMakeMove = TRUE] ELSE peer
  /\ UNCHANGED <<fromFEN, relay, online>>

NextPeer == GameStarted \/ LocalMove \/ HandleOpponentMove

SpecPeer == Init /\ [][NextPeer]_vars

-----------------------------------------------------------------------------
(* Position: the two conversions, called with texts and with squares *)

(* The texts fromAlgebraic is called with: every pair of a first and a second *)
(* character, and texts of no, one and three characters.                      *)
FirstCharacters == {"a", "b", "c", "d", "e", "f", "g", "h", "A", "E", "H", "i", "x", "1"}
SecondCharacters == {"0", "1", "2", "3", "4", "5", "6", "7", "8", "9", "a"}
CoordinateTexts ==
  {<<x, y>> : x \in FirstCharacters, y \in SecondCharacters}
    \cup {<<>>, <<"e">>, <<"e", "4", "4">>, <<"e", "4", " ">>}

(* Position.fromAlgebraic(text): ret holds the text in args.fen and the *)
(* Position returned in args.from; a throw is a failure.                *)
FromAlgebraic ==
  /\ \E text \in CoordinateTexts :
       ret' = Called("fromAlgebraic",
                     [NoArgs EXCEPT !.fen = text, !.from = fromAlgebraic(text).pos],
                     IF fromAlgebraic(text).ok THEN Success(NoMove)
                     ELSE Failure("Invalid algebraic position"))
  /\ UNCHANGED <<game, past, fromFEN, relay, peer, online>>

(* new Position(row, col).toAlgebraic(): ret holds the Position in args.from *)
(* and the text returned in args.fen.                                        *)
ToAlgebraic ==
  /\ \E p \in Squares :
       ret' = Called("toAlgebraic", [NoArgs EXCEPT !.from = p, !.fen = toAlgebraic(p)],
                     Success(NoMove))
  /\ UNCHANGED <<game, past, fromFEN, relay, peer, online>>

NextCoordinate == FromAlgebraic \/ ToAlgebraic

SpecCoordinate == Init /\ [][NextCoordinate]_vars

-----------------------------------------------------------------------------
(* The online game: two browsers and the relay, with events in flight *)

(* socket.on('game-created') and onGameCreated: White goes first *)
onGameCreated(b, data) ==
  [b EXCEPT !.gameId = data.gameId, !.playerColor = data.color,
            !.isOnlineGame = TRUE, !.canMakeMove = TRUE, !.game = NewGame]

(* socket.on('game-joined') and onGameJoined: Black waits for White *)
onGameJoined(b, data) ==
  [b EXCEPT !.gameId = data.gameId, !.playerColor = data.color,
            !.isOnlineGame = TRUE, !.canMakeMove = FALSE, !.game = NewGame]

(* socket.on('game-restart') and onGameRestart *)
onGameRestart(b) ==
  [b EXCEPT !.game = NewGame, !.canMakeMove = (b.playerColor = WHITE)]

(* handleOpponentMove after the two texts were parsed *)
opponentMoveMade(b, r) ==
  [b EXCEPT !.game = r.game, !.canMakeMove = IF r.ret.success THEN TRUE ELSE @]

(* socket.on('opponent-move') and handleOpponentMove(data) *)
onOpponentMove(b, data) ==
  IF data.from = <<>> \/ data.to = <<>> THEN b
  ELSE IF ~fromAlgebraic(data.from).ok \/ ~fromAlgebraic(data.to).ok THEN b
  ELSE opponentMoveMade(b, makeMove(b.game, fromAlgebraic(data.from).pos,
                                    fromAlgebraic(data.to).pos, data.promotion))

(* wrappedMakeMove after ChessUI.makeMove returned *)
moveMade(b, r) ==
  [b EXCEPT !.game = r.game,
            !.canMakeMove = IF r.ret.success /\ b.isOnlineGame THEN FALSE ELSE @]

(* wrappedMakeMove(from, to, promotion): the browser after the call *)
wrappedMakeMove(b, move) ==
  moveMade(b, makeMove(b.game, fromAlgebraic(move.from).pos, fromAlgebraic(move.to).pos,
                       move.promotion))

(* Network.sendMove was called and emitted: the move succeeded in an online *)
(* game and gameId is set.                                                  *)
moveSent(b, move) ==
  /\ b.isOnlineGame /\ b.gameId # "none"
  /\ makeMove(b.game, fromAlgebraic(move.from).pos, fromAlgebraic(move.to).pos,
              move.promotion).ret.success

(* handleSquareClick lets the click through: canPlayerMove() holds, the piece *)
(* selected is of the side to move on the board of the browser and the        *)
(* target is one of its legal moves.                                          *)
clickAllowed(b, move) ==
  /\ ~b.isOnlineGame \/ b.canMakeMove
  /\ getPieceAt(b.game.board, fromAlgebraic(move.from).pos).color = b.game.currentTurn
  /\ fromAlgebraic(move.to).pos
       \in getLegalMovesForPiece(b.game.board, fromAlgebraic(move.from).pos)

(* An event a browser emits to the relay. *)
Event(event, gameId, move) == [event |-> event, gameId |-> gameId, move |-> move]

(* The events among `emitted` that go to the socket. *)
EmittedTo(emitted, socket) ==
  IF \E e \in emitted : e.to = socket
  THEN <<CHOOSE e \in emitted : e.to = socket>> ELSE <<>>

(* The first browser clicks Create Game: Network.createGame() *)
ClickCreateGame ==
  /\ online.browsers["s1"].gameId = "none"
  /\ online.toServer["s1"] = <<>> /\ online.toBrowser["s1"] = <<>>
  /\ online' = [online EXCEPT !.toServer["s1"] = Append(@, Event("create-game", "none",
                                                                 NoRelayMove))]
  /\ UNCHANGED <<game, ret, past, fromFEN, relay, peer>>

(* The second browser clicks Join Game with the id the first one shows: *)
(* Network.joinGame(id)                                                 *)
ClickJoinGame ==
  /\ online.browsers["s1"].gameId # "none"
  /\ online.browsers["s2"].gameId = "none"
  /\ online.toServer["s2"] = <<>> /\ online.toBrowser["s2"] = <<>>
  /\ online' = [online EXCEPT !.toServer["s2"] =
                                 Append(@, Event("join-game", online.browsers["s1"].gameId,
                                                 NoRelayMove))]
  /\ UNCHANGED <<game, ret, past, fromFEN, relay, peer>>

(* A browser in an online game clicks a piece and a target: handleSquareClick *)
(* calls wrappedMakeMove, which emits the move when it succeeded.             *)
ClickSquare ==
  /\ \E s \in Browsers : \E move \in OnlineMoves :
       /\ online.browsers[s].isOnlineGame
       /\ Len(online.browsers[s].game.moveHistory) < MaxOnlinePlies
       /\ clickAllowed(online.browsers[s], move)
       /\ online' = [online EXCEPT
            !.browsers[s] = wrappedMakeMove(@, move),
            !.toServer[s] = IF moveSent(online.browsers[s], move)
                            THEN Append(@, Event("move", online.browsers[s].gameId, move))
                            ELSE @,
            !.clicked = TRUE]
  /\ UNCHANGED <<game, ret, past, fromFEN, relay, peer>>

(* A browser in an online game clicks New Game: Network.restartGame() *)
ClickNewGame ==
  /\ online.restarts < MaxRestarts
  /\ \E s \in Browsers :
       /\ online.browsers[s].isOnlineGame /\ online.browsers[s].gameId # "none"
       /\ online' = [online EXCEPT
            !.toServer[s] = Append(@, Event("restart-game", online.browsers[s].gameId,
                                            NoRelayMove)),
            !.restarts = @ + 1, !.restart = "requested", !.clicked = FALSE]
  /\ UNCHANGED <<game, ret, past, fromFEN, relay, peer>>

(* The relay after the handler of the event ran for the socket. *)
relayHandled(r, socket, e, newId) ==
  CASE e.event = "create-game" -> onCreateGame(r, socket, newId)
    [] e.event = "join-game" -> onJoinGame(r, socket, e.gameId)
    [] e.event = "move" -> onMove(r, socket, e.gameId, e.move)
    [] OTHER -> onRestartGame(r, socket, e.gameId)

(* The relay recorded a move and emitted it to no one. *)
MoveUnheard(r, handled) ==
  /\ handled.handled.event = "move"
  /\ handled.games # r.games
  /\ handled.emitted = {}

(* The relay handles the oldest event of one socket; what it emits is in *)
(* flight to the browsers.                                               *)
RelayHandles ==
  /\ \E s \in Browsers : \E newId \in GameIds \ DOMAIN relay.games :
       /\ online.toServer[s] # <<>>
       /\ relay' = relayHandled(relay, s, Head(online.toServer[s]), newId)
       /\ online' = [online EXCEPT
            !.toServer[s] = Tail(@),
            !.toBrowser = [t \in Browsers |-> @[t] \o EmittedTo(relay'.emitted, t)],
            !.restart = IF Head(online.toServer[s]).event = "restart-game"
                        THEN "processed" ELSE @,
            !.unheard = @ \/ MoveUnheard(relay, relay')]
  /\ UNCHANGED <<game, ret, past, fromFEN, peer>>

(* The browser after the callback of the event ran. *)
browserHandled(b, e) ==
  CASE e.event = "game-created" -> onGameCreated(b, e)
    [] e.event = "game-joined" -> onGameJoined(b, e)
    [] e.event = "opponent-move" -> onOpponentMove(b, e.move)
    [] e.event = "game-restart" -> onGameRestart(b)
    [] OTHER -> b

(* A browser handles the oldest event in flight to it. *)
BrowserHandles ==
  /\ \E s \in Browsers :
       /\ online.toBrowser[s] # <<>>
       /\ online' = [online EXCEPT
            !.browsers[s] = browserHandled(@, Head(online.toBrowser[s])),
            !.toBrowser[s] = Tail(@)]
  /\ UNCHANGED <<game, ret, past, fromFEN, relay, peer>>

NextOnline ==
  ClickCreateGame \/ ClickJoinGame \/ ClickSquare \/ ClickNewGame \/ RelayHandles
    \/ BrowserHandles

SpecOnline == Init /\ [][NextOnline]_vars

-----------------------------------------------------------------------------
(* Properties *)

(* The call that led to the present state was makeMove. *)
WasMakeMove == ret.op = "makeMove"

(* The states whose board was not seen in the state before: a rejected makeMove *)
(* returns to the board it was called on.                                       *)
FreshBoard == ret.success \/ ret.op = "loadFEN"

(* C1: makeMove is all-or-nothing: a makeMove call that returns a failure     *)
(* (wrong turn, a move the board refuses, or a move that leaves the mover's   *)
(* king in check) leaves the board, the turn, the histories, the clocks and   *)
(* the status exactly as they were before the call.                           *)
C1_FailedMoveChangesNothing ==
  [][(ret'.op = "makeMove" /\ ~ret'.success) => game' = game]_vars

(* A castling attempt was simulated (king and rook moved) and then rejected. *)
C1_Witness ==
  /\ WasMakeMove /\ ~ret.success /\ ret.error = SelfCheckError
  /\ getPieceAt(game.board, ret.args.from).kind = KING
  /\ Abs(ret.args.to.col - ret.args.from.col) = 2

(* The move of a piece of the side to move that the board carries out and that *)
(* leaves that side's king attacked.                                           *)
SelfCheckCase(g, args) ==
  /\ isTurnOf(g, getPieceAt(g.board, args.from))
  /\ movePiece(g.board, args.from, args.to, args.promotion).result.success
  /\ isKingInCheck(movePiece(g.board, args.from, args.to, args.promotion).board,
                   g.currentTurn)

(* C2: a move after which the mover's own king is attacked is never committed: *)
(* makeMove tries it on a copy, returns the failure 'Move would leave king in  *)
(* check', and the game is as it was before the call.                          *)
C2_SelfCheckRejected ==
  [][(ret'.op = "makeMove" /\ SelfCheckCase(game, ret'.args))
       => (~ret'.success /\ ret'.error = SelfCheckError /\ game' = game)]_vars

(* A king's single step onto an attacked square was rejected. *)
C2_Witness ==
  /\ WasMakeMove /\ ~ret.success /\ ret.error = SelfCheckError
  /\ SelfCheckCase(game, ret.args)
  /\ getPieceAt(game.board, ret.args.from).kind = KING
  /\ Abs(ret.args.to.col - ret.args.from.col) <= 1

(* The promotion kinds a move of the piece on `from` to `targetPos` can be made with. *)
PromotionsFor(board, from, targetPos) ==
  IF getPieceAt(board, from).kind = PAWN /\ targetPos.row \in {0, 7}
  THEN PromotionInputs ELSE {QUEEN}

(* C3: no move returned by getLegalMovesForPiece leaves the king of the piece's *)
(* colour in check on the board after the move, whichever piece of whichever    *)
(* colour is asked about and whichever promotion kind the move is made with.    *)
C3_LegalMovesKeepKingSafe ==
  FreshBoard =>
    \A from \in OccupiedSquares(game.board) :
      \A targetPos \in getLegalMovesForPiece(game.board, from) :
        \A promotionPiece \in PromotionsFor(game.board, from, targetPos) :
          ~isKingInCheck(movePiece(game.board, from, targetPos, promotionPiece).board,
                         getPieceAt(game.board, from).color)

(* A piece has a move that its movement rule allows and the list leaves out, *)
(* next to moves the list returns.                                           *)
C3_Witness ==
  /\ FreshBoard
  /\ \E from \in OccupiedSquares(game.board) :
       /\ getLegalMovesForPiece(game.board, from) # {}
       /\ \E targetPos \in Squares :
            /\ targetPos # from
            /\ isValidMove(game.board, from, targetPos)
            /\ targetPos \notin getLegalMovesForPiece(game.board, from)

(* The squares a king castling from `from` to `targetPos` crosses and lands on. *)
CastlingPath(from, targetPos) ==
  {Pos(from.row, col) : col \in (Min(from.col, targetPos.col) .. Max(from.col, targetPos.col))
                                  \ {from.col}}

(* The king on `from` is offered or allowed the castling move to `targetPos`. *)
CastlingAccepted(g, from, targetPos) ==
  /\ getPieceAt(g.board, from).kind = KING
  /\ targetPos.row = from.row
  /\ Abs(targetPos.col - from.col) = 2
  /\ \/ targetPos \in getLegalMovesForPiece(g.board, from)
     \/ makeMove(g, from, targetPos, QUEEN).ret.success

(* C4: castling is listed by getLegalMovesForPiece and accepted by makeMove   *)
(* only if neither the square the king passes over nor the square it lands on *)
(* is attacked by the opponent.                                               *)
C4_CastlingAvoidsAttackedSquares ==
  FreshBoard =>
    \A from \in OccupiedSquares(game.board) : \A targetPos \in Squares :
      CastlingAccepted(game, from, targetPos) =>
        \A square \in CastlingPath(from, targetPos) :
          ~isSquareAttacked(game.board, square,
                            Opposite(getPieceAt(game.board, from).color))

(* C5: makeMove fails with the wrong-turn error unless `from` holds a piece of *)
(* the side to move; a successful makeMove gives the turn to the other colour, *)
(* adds exactly one to fullMoveNumber when Black moved and leaves it as it was *)
(* when White moved.                                                           *)
C5_TurnsAlternate ==
  [][ret'.op = "makeMove" =>
       /\ ~isTurnOf(game, getPieceAt(game.board, ret'.args.from))
            => (~ret'.success /\ ret'.error = NotTurnError(game.currentTurn)
                /\ game'.currentTurn = game.currentTurn)
       /\ ret'.success
            => /\ getPieceAt(game.board, ret'.args.from).color = game.currentTurn
               /\ game'.currentTurn = Opposite(game.currentTurn)
               /\ ~isNaN(game'.fullMoveNumber)
               /\ game'.fullMoveNumber =
                    (IF game.currentTurn = BLACK THEN game.fullMoveNumber + 1
                     ELSE game.fullMoveNumber)]_vars

(* The number of pieces standing on the board. *)
PieceCount(board) == Cardinality(OccupiedSquares(board))

(* C6: a successful makeMove sets halfMoveClock to 0 when the piece moved is a *)
(* pawn or a piece was captured (en passant and promotion included), and adds  *)
(* exactly 1 to it otherwise, so that the clock counts the plies played since  *)
(* the last pawn move or capture.                                              *)
C6_HalfMoveClockCountsQuietPlies ==
  [][(ret'.op = "makeMove" /\ ret'.success) =>
       /\ ~isNaN(game'.halfMoveClock)
       /\ game'.halfMoveClock =
            (IF \/ getPieceAt(game.board, ret'.args.from).kind = PAWN
                \/ PieceCount(game'.board) < PieceCount(game.board)
             THEN 0 ELSE game.halfMoveClock + 1)]_vars

(* The call that led to the present state was a makeMove that committed a move. *)
Committed == WasMakeMove /\ ret.success

SideToMoveInCheck(g) == isKingInCheck(g.board, g.currentTurn)

SideToMoveHasNoMove(g) ==
  \A from \in getPiecesByColor(g.board, g.currentTurn) :
    getLegalMovesForPiece(g.board, from) = {}

(* The conditions of the status, by their place in the order of priority. *)
ConditionHolds(g, rank) ==
  CASE rank = 1 -> SideToMoveInCheck(g) /\ SideToMoveHasNoMove(g)
    [] rank = 2 -> ~SideToMoveInCheck(g) /\ SideToMoveHasNoMove(g)
    [] rank = 3 -> isInsufficientMaterial(g.board)
    [] rank = 4 -> Count(g.positionHistory, getPositionSignature(g.board)) >= 3
    [] rank = 5 -> ~isNaN(g.halfMoveClock) /\ g.halfMoveClock >= 100
    [] rank = 6 -> SideToMoveInCheck(g)
    [] OTHER -> TRUE

(* The status reported for the condition of each rank. *)
StatusOfRank(g, rank) ==
  CASE rank = 1 -> (IF g.currentTurn = WHITE THEN CHECKMATE_BLACK ELSE CHECKMATE_WHITE)
    [] rank = 2 -> DRAW_STALEMATE
    [] rank = 3 -> DRAW_INSUFFICIENT
    [] rank = 4 -> DRAW_REPETITION
    [] rank = 5 -> DRAW_FIFTY_MOVE
    [] rank = 6 -> CHECK
    [] OTHER -> ACTIVE

Ranks == 1..7

(* C7: after every committed move gameStatus is the status of the first        *)
(* condition that holds for the side now to move, in the order checkmate,      *)
(* stalemate, insufficient material, threefold repetition, fifty-move (clock   *)
(* of 100 or more), check, Active: no condition is reported while one placed   *)
(* before it holds.                                                            *)
C7_StatusIsFirstConditionInOrder ==
  Committed =>
    \E rank \in Ranks :
      /\ game.gameStatus = StatusOfRank(game, rank)
      /\ ConditionHolds(game, rank)
      /\ \A before \in 1..(rank - 1) : ~ConditionHolds(game, before)

(* A move was committed after which the position has occurred three times and *)
(* the clock stands at 100 or more: the repetition is what is reported.       *)
C7_Witness ==
  /\ Committed
  /\ ConditionHolds(game, 4) /\ ConditionHolds(game, 5)
  /\ game.gameStatus = DRAW_REPETITION

EndsWith(text, suffix) ==
  /\ Len(text) >= Len(suffix)
  /\ SubSeq(text, Len(text) - Len(suffix) + 1, Len(text)) = suffix

DrawStatuses == {DRAW_STALEMATE, DRAW_INSUFFICIENT, DRAW_REPETITION, DRAW_FIFTY_MOVE}

(* C8: the status computed after a call is a checkmate status exactly when the *)
(* side to move is in check and none of its pieces has a legal move; it names  *)
(* the winner (checkmate-black when White is mated, checkmate-white when Black *)
(* is mated); getPGNMoveText ends with 1-0 for checkmate-white, 0-1 for        *)
(* checkmate-black and 1/2-1/2 for every draw status.                          *)
C8_CheckmateReportedExactly ==
  (ret.success /\ ret.op # "new") =>
    /\ game.gameStatus \in {CHECKMATE_WHITE, CHECKMATE_BLACK}
         <=> (SideToMoveInCheck(game) /\ SideToMoveHasNoMove(game))
    /\ game.gameStatus = CHECKMATE_WHITE => game.currentTurn = BLACK
    /\ game.gameStatus = CHECKMATE_BLACK => game.currentTurn = WHITE
    /\ game.gameStatus = CHECKMATE_WHITE => EndsWith(getPGNMoveText(game), <<"1", "-", "0">>)
    /\ game.gameStatus = CHECKMATE_BLACK => EndsWith(getPGNMoveText(game), <<"0", "-", "1">>)
    /\ game.gameStatus \in DrawStatuses
         => EndsWith(getPGNMoveText(game), <<"1", "/", "2", "-", "1", "/", "2">>)

(* Black's move mated White: checkmate-black, and the move text ends with 0-1. *)
C8_Witness ==
  /\ Committed
  /\ game.currentTurn = WHITE
  /\ SideToMoveInCheck(game) /\ SideToMoveHasNoMove(game)
  /\ game.gameStatus = CHECKMATE_BLACK
  /\ EndsWith(getPGNMoveText(game), <<"#", " ", "0", "-", "1">>)

(* C9: the history of positions starts with the position the game started     *)
(* from and gets one signature per committed move; after a committed move that *)
(* leaves no checkmate, stalemate or insufficient material, gameStatus is      *)
(* draw-repetition exactly when the signature of the present position occurs   *)
(* in that history three times or more, the starting position counted: at the  *)
(* third occurrence and at no earlier ply.                                     *)
C9_RepetitionAtThirdOccurrence ==
  ret.success =>
    /\ Len(game.positionHistory) = Len(game.moveHistory) + 1
    /\ game.positionHistory[Len(game.positionHistory)] = getPositionSignature(game.board)
    /\ (Committed /\ \A before \in 1..3 : ~ConditionHolds(game, before))
         => (game.gameStatus = DRAW_REPETITION
               <=> Count(game.positionHistory, getPositionSignature(game.board)) >= 3)

(* The starting position of a new game has come back for the third time, the *)
(* start counted, after eight plies, and the repetition is reported.         *)
C9_Witness ==
  /\ Committed
  /\ game.positionHistory[1] = getPositionSignature(NewBoard)
  /\ getPositionSignature(game.board) = getPositionSignature(NewBoard)
  /\ Count(game.positionHistory, getPositionSignature(game.board)) = 3
  /\ Len(game.moveHistory) = 8
  /\ game.gameStatus = DRAW_REPETITION

BishopsOf(board) == {p \in OccupiedSquares(board) : getPieceAt(board, p).kind = BISHOP}

KnightsOf(board) == {p \in OccupiedSquares(board) : getPieceAt(board, p).kind = KNIGHT}

(* The (row + col) parities of the squares in `squares`. *)
Parities(squares) == {(p.row + p.col) % 2 : p \in squares}

(* The cases in which the material is insufficient. *)
InsufficientCase(board) ==
  \/ PieceCount(board) = 2
  \/ /\ PieceCount(board) = 3
     /\ Cardinality(BishopsOf(board)) = 1 \/ Cardinality(KnightsOf(board)) = 1
  \/ /\ PieceCount(board) = 4
     /\ Cardinality(BishopsOf(board)) = 2
     /\ {getPieceAt(board, p).color : p \in BishopsOf(board)} = COLORS
     /\ Cardinality(Parities(BishopsOf(board))) = 1

(* C10: isInsufficientMaterial is true exactly when the board holds 2 pieces,  *)
(* or 3 pieces with exactly one bishop or exactly one knight among them, or 4  *)
(* pieces with exactly two bishops among them, one of each colour, on squares  *)
(* of equal (row + col) parity; loading the bare-kings FEN gives a board with  *)
(* insufficient material and the status draw-insufficient-material.            *)
C10_InsufficientMaterialCases ==
  FreshBoard =>
    /\ isInsufficientMaterial(game.board) <=> InsufficientCase(game.board)
    /\ (ret.op = "loadFEN" /\ ret.args.fen = FEN_BARE_KINGS)
         => /\ ret.success
            /\ isInsufficientMaterial(game.board)
            /\ game.gameStatus = DRAW_INSUFFICIENT

(* Four pieces, two of them bishops of opposite colours on squares of one colour. *)
C10_Witness ==
  /\ FreshBoard
  /\ PieceCount(game.board) = 4
  /\ Cardinality(BishopsOf(game.board)) = 2
  /\ isInsufficientMaterial(game.board)


-----------------------------------------------------------------------------
(* Undo *)

(* The call that led to the present state was an undoLastMove that undid a move. *)
WasUndo == ret.op = "undoLastMove" /\ ret.success

Last(seq) == seq[Len(seq)]

(* makeMove called again with the squares and the promotion piece of `move`. *)
lastMoveAgain(g, move) ==
  makeMove(g, fromAlgebraic(move.from).pos, fromAlgebraic(move.to).pos,
           IF move.isPromotion THEN move.promotedTo.kind ELSE QUEEN)

(* C11: in a game played from the standard starting position, after            *)
(* undoLastMove has undone the last move, making that same move again gives a  *)
(* game whose getFEN() is the getFEN() of the game before the undo.            *)
C11_UndoThenRedoRestoresFEN ==
  [][(ret'.op = "undoLastMove" /\ ret'.success /\ ~fromFEN)
       => getFEN(lastMoveAgain(game', Last(game.moveHistory)).game) = getFEN(game)]_vars

(* The castling move 6.O-O was undone, after the en passant capture of move 3. *)
C11_Witness ==
  /\ WasUndo /\ ~fromFEN
  /\ Len(game.moveHistory) = 10
  /\ game.moveHistory[5].isEnPassant

(* The step is a call of undoLastMove: it answers and changes as the claim says. *)
UndoRestores ==
  ret'.op = "undoLastMove"
    => IF Len(game.moveHistory) = 0
       THEN ~ret'.success /\ game' = game
       ELSE ret'.success /\ snapshot(game') = Last(past)

(* C12: undoLastMove brings the pieces with their hasMoved flags, the en        *)
(* passant target, currentTurn, halfMoveClock, fullMoveNumber and gameStatus   *)
(* back to what they were immediately before the undone move, in every Game,   *)
(* one loaded from a FEN text included; on an empty history it returns false   *)
(* and changes nothing.                                                        *)
C12_UndoRestoresPreviousState == [][UndoRestores]_vars

(* The same, for the games on which loadFEN was never called. *)
UndoRestoresFromStandardStart == [][~fromFEN => UndoRestores]_vars

-----------------------------------------------------------------------------
(* FEN *)

(* The game was constructed or reached by a legal move. *)
ReachedByLegalMove == ret.op = "new" \/ (WasMakeMove /\ ret.success)

(* loadFEN(getFEN()) succeeds and gives a board of the same position signature. *)
RoundTrip(g) ==
  /\ GameLoadFEN(g, getFEN(g)).ok
  /\ getPositionSignature(GameLoadFEN(g, getFEN(g)).game.board) = getPositionSignature(g.board)

(* C13: for every game state reached by legal moves, Game.loadFEN of getFEN()  *)
(* succeeds and the board it produces has the position signature (placement    *)
(* and en passant target) of the original board.                               *)
C13_FENRoundTrip == ReachedByLegalMove => RoundTrip(game)

(* The same, for the games whose two counters are numbers. *)
FENRoundTripOfNumericCounters ==
  (ReachedByLegalMove /\ ~isNaN(game.halfMoveClock) /\ ~isNaN(game.fullMoveNumber))
    => RoundTrip(game)

(* The fields of the text handed to the loadFEN call of the step. *)
LoadedParts == split(trim(ret'.args.fen), " ")

(* The step is a Game.loadFEN call that hands a malformed placement to *)
(* Board.loadFEN.                                                      *)
MalformedPlacementLoaded ==
  /\ ret'.op = "loadFEN"
  /\ Len(LoadedParts) = 6
  /\ ~BoardLoadFEN(game.board, LoadedParts[1]).ok

(* C14: Board.loadFEN returns false on a wrong number of ranks, on a rank that *)
(* does not fill exactly 8 files and on a character that names no piece, and   *)
(* after such a failure the pieces and the en passant target of the board are  *)
(* what they were before the call.                                             *)
C14_BoardLoadFENFailureKeepsBoard ==
  [][MalformedPlacementLoaded
       => /\ ~ret'.success
          /\ game'.board.pieces = game.board.pieces
          /\ game'.board.enPassantTarget = game.board.enPassantTarget]_vars

(* The three malformed placements are refused. *)
MalformedPlacementsRefused ==
  \A fen \in {FEN_BAD_RANK, FEN_BAD_RANK_COUNT, FEN_BAD_CHAR} :
     /\ ~BoardLoadFEN(game.board, split(trim(fen), " ")[1]).ok
     /\ ~GameLoadFEN(game, fen).ok

(* C15: when Game.loadFEN returns false, the board, currentTurn, the hasMoved  *)
(* flags, the en passant target, both clocks, both histories and gameStatus    *)
(* are what they were before the call.                                         *)
C15_GameLoadFENAtomic ==
  [][(ret'.op = "loadFEN" /\ ~ret'.success) => game' = game]_vars

(* A text of a wrong number of fields is refused before anything is assigned. *)
WrongFieldCountChangesNothing ==
  [][(ret'.op = "loadFEN" /\ Len(LoadedParts) # 6) => (~ret'.success /\ game' = game)]_vars

-----------------------------------------------------------------------------
(* The squares of the pieces *)

(* Positions one step outside the board. *)
OffBoardPositions ==
  {Pos(r, c) : r \in {0 - 1, 8}, c \in 0..7} \cup {Pos(r, c) : r \in 0..7, c \in {0 - 1, 8}}

(* The pieces list of a board that began with the 32 pieces of the standard    *)
(* setup holds 32 pieces less the captured ones (a promotion takes one out and *)
(* puts one in).  The squares taken are as many exactly when no two pieces of  *)
(* the list stand on one square and none stands outside the 64 squares.        *)
OnePiecePerSquare(board) ==
  Cardinality(OccupiedSquares(board)) = 32 - Len(board.capturedPieces)

(* C16: on every board reached from the standard setup by makeMove and         *)
(* undoLastMove calls (captures, en passant, castling and promotion included), *)
(* and on the board any Board.movePiece call makes of it, no two live pieces   *)
(* stand on one square and every piece stands on a square of rows and columns  *)
(* 0..7; movePiece refuses a destination outside the board.                    *)
C16_OnePiecePerSquareOnBoard ==
  ~fromFEN =>
    /\ OnePiecePerSquare(game.board)
    /\ \A from \in OccupiedSquares(game.board) :
         /\ \A to \in Squares :
              OnePiecePerSquare(movePiece(game.board, from, to, QUEEN).board)
         /\ \A to \in OffBoardPositions :
              /\ ~movePiece(game.board, from, to, QUEEN).result.success
              /\ movePiece(game.board, from, to, QUEEN).board = game.board

(* A pawn has captured on the last rank and become a knight, after three other *)
(* captures.                                                                   *)
C16_Witness ==
  /\ ~fromFEN /\ WasMakeMove /\ ret.success
  /\ ret.move.isPromotion /\ ret.move.promotedTo.kind = KNIGHT
  /\ Len(game.board.capturedPieces) = 4

-----------------------------------------------------------------------------
(* Queries *)

(* C17: a getLegalMovesForPiece call leaves the board as it was (the pieces    *)
(* with their squares and hasMoved flags, the captured list, the en passant    *)
(* target), and a second call for the same piece, nothing having been changed  *)
(* in between, returns the same set of destinations.                           *)
C17_LegalMovesQueryIsPure ==
  [][ret'.op = "getLegalMovesForPiece"
       => /\ game'.board = game.board
          /\ (ret.op = "getLegalMovesForPiece" /\ ret'.args.from = ret.args.from)
               => ret'.moves = ret.moves]_vars

(* The query was made twice for a piece that has a move the board would carry  *)
(* out but that is left out because it leaves the own king in check: a         *)
(* candidate was simulated and found illegal.                                  *)
C17_Witness ==
  /\ ret.op = "getLegalMovesForPiece"
  /\ ret.moves # {}
  /\ ret.moves # getLegalMovesUnfiltered(game.board, ret.args.from)

(* The call returns the destinations of the operator getLegalMovesForPiece. *)
QueryReturnsLegalMoves ==
  ret.op = "getLegalMovesForPiece"
    => ret.moves = getLegalMovesForPiece(game.board, ret.args.from)

-----------------------------------------------------------------------------
(* Notation *)

(* The step is a makeMove call that committed a move. *)
MoveCommitted == ret'.op = "makeMove" /\ ret'.success

(* The squares of the other pieces of the mover's kind and colour that could   *)
(* legally move to `to` on the board the move was made on.                     *)
OtherReaching(board, from, to) ==
  {p \in Squares :
     /\ p # from
     /\ getPieceAt(board, p).kind = getPieceAt(board, from).kind
     /\ getPieceAt(board, p).color = getPieceAt(board, from).color
     /\ to \in getLegalMovesForPiece(board, p)}

(* The source file, else the source rank, else the source square. *)
Disambiguation(others, from) ==
  IF \A p \in others : p.col # from.col THEN <<toAlgebraic(from)[1]>>
  ELSE IF \A p \in others : p.row # from.row THEN <<toAlgebraic(from)[2]>>
  ELSE toAlgebraic(from)

StartsWith(text, start) ==
  Len(text) >= Len(start) /\ SubSeq(text, 1, Len(start)) = start

(* C18: when a piece that is no pawn moves (castling aside) and another piece  *)
(* of its kind and colour could also reach the destination, the recorded       *)
(* notation has, right after the piece letter, the source file if no such      *)
(* other piece stands on that file, else the source rank if none stands on     *)
(* that rank, else the full source square.                                     *)
C18_NotationDisambiguated ==
  [][(/\ MoveCommitted
      /\ ~ret'.move.isCastling
      /\ ret'.move.piece.kind # PAWN
      /\ OtherReaching(game.board, ret'.args.from, ret'.args.to) # {})
       => StartsWith(ret'.move.notation,
                     <<ret'.move.piece.kind>>
                       \o Disambiguation(OtherReaching(game.board, ret'.args.from, ret'.args.to),
                                         ret'.args.from))]_vars

(* No recorded notation of a piece move has anything between the piece letter *)
(* and the capture sign or the destination square.                            *)
NotationNeverDisambiguated ==
  [][(MoveCommitted /\ ~ret'.move.isCastling /\ ret'.move.piece.kind # PAWN)
       => \/ StartsWith(ret'.move.notation, <<ret'.move.piece.kind>> \o ret'.move.to)
          \/ StartsWith(ret'.move.notation, <<ret'.move.piece.kind, "x">> \o ret'.move.to)]_vars

(* The present state was reached by a committed move that is no castling. *)
PlainMoveCommitted == WasMakeMove /\ ret.success /\ ~ret.move.isCastling

(* The side now to move, the opponent of the mover, is checkmated. *)
OpponentCheckmated == SideToMoveInCheck(game) /\ SideToMoveHasNoMove(game)

(* The present state was reached from the standard start by the call *)
(* makeMove('e2', 'e4').                                             *)
OpenedE2E4 ==
  /\ ~fromFEN /\ WasMakeMove /\ Len(past) = (IF ret.success THEN 1 ELSE 0)
  /\ toAlgebraic(ret.args.from) = <<"e", "2">>
  /\ toAlgebraic(ret.args.to) = <<"e", "4">>

(* C19: the recorded notation of a committed move that is no castling ends     *)
(* with '#' exactly when the opponent is checkmated on the resulting board,    *)
(* with '+' exactly when the opponent is in check and not checkmated, and with *)
(* neither otherwise; e2-e4 from the standard start is recorded as "e4".       *)
C19_CheckAndMateSuffix ==
  /\ PlainMoveCommitted =>
       /\ EndsWith(ret.move.notation, <<"#">>) <=> OpponentCheckmated
       /\ EndsWith(ret.move.notation, <<"+">>)
            <=> (SideToMoveInCheck(game) /\ ~OpponentCheckmated)
       /\ ret.move.notation = Last(game.moveHistory).notation
  /\ OpenedE2E4 => (ret.success /\ ret.move.notation = <<"e", "4">>)

(* Ra8 was recorded with '#': the opponent is checkmated. *)
C19_Witness ==
  /\ PlainMoveCommitted
  /\ OpponentCheckmated
  /\ ret.move.notation = <<"R", "a", "8", "#">>

(* A move was recorded with '+'. *)
CheckSymbolRecorded == PlainMoveCommitted /\ EndsWith(ret.move.notation, <<"+">>)

(* The opening move e2-e4 was committed. *)
OpeningRecorded == OpenedE2E4 /\ ret.success

-----------------------------------------------------------------------------
(* Status and makeMove *)

(* The move of the makeMove call of the step is legal for the side to move. *)
LegalForSideToMove ==
  /\ isTurnOf(game, getPieceAt(game.board, ret'.args.from))
  /\ ret'.args.to \in getLegalMovesForPiece(game.board, ret'.args.from)

(* A makeMove call succeeds exactly when its move is legal for the side to     *)
(* move, whatever the status is, and the status is then computed anew.         *)
MoveAcceptedWhenLegal ==
  /\ ret'.success <=> LegalForSideToMove
  /\ ret'.success => game'.gameStatus = updateGameStatus(game')

(* C20: makeMove is not refused because of gameStatus: in every status it      *)
(* succeeds exactly when the move is legal for the side to move, and the       *)
(* status is then computed anew (a draw status can be followed by active or    *)
(* check); in a checkmate or stalemate status every makeMove fails.            *)
C20_StatusDoesNotGateMoves ==
  [][ret'.op = "makeMove"
       => /\ MoveAcceptedWhenLegal
          /\ game.gameStatus \in {CHECKMATE_WHITE, CHECKMATE_BLACK, DRAW_STALEMATE}
               => ~ret'.success]_vars

(* The first part alone. *)
MovesAcceptedWhenLegal == [][ret'.op = "makeMove" => MoveAcceptedWhenLegal]_vars

(* The last part, on the games on which no loadFEN has failed: the status is *)
(* then the status of the board.                                             *)
NoMoveAfterMateOrStalemate ==
  [][(/\ ret'.op = "makeMove"
      /\ game.gameStatus = updateGameStatus(game)
      /\ game.gameStatus \in {CHECKMATE_WHITE, CHECKMATE_BLACK, DRAW_STALEMATE})
       => ~ret'.success]_vars

(* A move was committed in a game whose status was a draw, and the status is *)
(* active or check.                                                          *)
DrawFollowedByPlay ==
  /\ WasMakeMove /\ ret.success
  /\ Last(past).gameStatus \in DrawStatuses
  /\ game.gameStatus \in {ACTIVE, CHECK}

-----------------------------------------------------------------------------
(* The relay server *)

(* The colors of the participants of room g, in the order of registration. *)
RoomColors(g) ==
  [i \in DOMAIN relay.games[g].players |-> relay.games[g].players[i].color]

(* Every room has its creator as white and at most one more participant, black. *)
AtMostTwoParticipants ==
  \A g \in DOMAIN relay.games : RoomColors(g) \in {<<WHITE>>, <<WHITE, BLACK>>}

(* The step is the handling of `event`. *)
Handles(event) == relay' # relay /\ relay'.handled.event = event

(* create-game makes a room whose only participant is the creator, as white. *)
CreateGameRegistersWhite ==
  Handles("create-game")
    => /\ relay'.handled.gameId \notin DOMAIN relay.games
       /\ relay'.games[relay'.handled.gameId] =
            [players |-> <<[id |-> relay'.handled.socket, color |-> WHITE]>>,
             currentTurn |-> WHITE, moves |-> <<>>]

(* join-game of a room with one participant registers the socket as black and *)
(* tells it so; any other join-game is answered with an error to the socket   *)
(* alone and leaves every room as it was.                                     *)
JoinGameAnswered ==
  Handles("join-game")
    => IF HasGame(relay'.handled.gameId)
          /\ Len(relay.games[relay'.handled.gameId].players) < 2
       THEN /\ relay'.games =
                 [relay.games EXCEPT ![relay'.handled.gameId].players =
                    Append(@, [id |-> relay'.handled.socket, color |-> BLACK])]
            /\ [to |-> relay'.handled.socket, event |-> "game-joined",
                gameId |-> relay'.handled.gameId, color |-> BLACK, move |-> NoRelayMove]
                 \in relay'.emitted
       ELSE /\ relay'.games = relay.games
            /\ relay'.emitted =
                 Emit({relay'.handled.socket},
                      IF HasGame(relay'.handled.gameId) THEN "error: Game is full"
                                                       ELSE "error: Game not found",
                      relay'.handled.gameId, "none", NoRelayMove)

(* C21: a room never holds more than two participants: its creator is         *)
(* registered as white and the first join-game as black; any further          *)
(* join-game, and a join-game of an id no room has, is answered with an error *)
(* and leaves the participants and the turn flag unchanged.                   *)
C21_RoomHoldsAtMostTwo ==
  []AtMostTwoParticipants /\ [][CreateGameRegistersWhite /\ JoinGameAnswered]_vars

(* A third socket asked to join a room of two other sockets and got the error. *)
C21_Witness ==
  /\ relay.handled.event = "join-game"
  /\ HasGame(relay.handled.gameId)
  /\ RoomColors(relay.handled.gameId) = <<WHITE, BLACK>>
  /\ PlayerEntries(relay.games[relay.handled.gameId].players, relay.handled.socket) = <<>>
  /\ relay.games[relay.handled.gameId].players[1].id
       # relay.games[relay.handled.gameId].players[2].id
  /\ \E e \in relay.emitted : e.event = "error: Game is full" /\ e.to = relay.handled.socket


(* Socket s is registered in room g with the color. *)
Plays(g, s, color) ==
  \E i \in DOMAIN relay.games[g].players :
    relay.games[g].players[i] = [id |-> s, color |-> color]

(* The sockets registered in room g. *)
Participants(g) == {relay.games[g].players[i].id : i \in DOMAIN relay.games[g].players}

(* The move event now handled was forwarded: room g recorded it for the side *)
(* whose turn it was and gave the turn to the other side, and opponent-move  *)
(* with the same from, to and promotion went to the connected participants   *)
(* other than the sender, and to nobody else.                                *)
MoveForwarded(g, s, move) ==
  /\ HasGame(g)
  /\ relay'.games =
       [relay.games EXCEPT
          ![g].moves = Append(@, [move |-> move, player |-> relay.games[g].currentTurn]),
          ![g].currentTurn = Opposite(@)]
  /\ relay'.emitted =
       Emit((Participants(g) \cap relay.connected) \ {s}, "opponent-move", g, "none", move)

(* The move event now handled was refused: the sender alone got an error, and *)
(* no room changed.                                                          *)
MoveRefused(s) ==
  /\ relay'.games = relay.games
  /\ \A e \in relay'.emitted : e.to = s /\ e.event \in
       {"error: Game not found", "error: Player not found in this game", "error: Not your turn"}
  /\ relay'.emitted # {}

(* A move is forwarded only from a participant whose color is the turn flag; *)
(* it is forwarded when the sender's color is the turn flag, and refused     *)
(* when the room is unknown or the sender is not registered with the turn's  *)
(* color.                                                                    *)
MoveGated ==
  Handles("move")
    => /\ MoveForwarded(relay'.handled.gameId, relay'.handled.socket, relay'.handled.move)
          \/ MoveRefused(relay'.handled.socket)
       /\ ~MoveRefused(relay'.handled.socket)
            => /\ HasGame(relay'.handled.gameId)
               /\ Plays(relay'.handled.gameId, relay'.handled.socket,
                        relay.games[relay'.handled.gameId].currentTurn)
       /\ (/\ HasGame(relay'.handled.gameId)
           /\ Plays(relay'.handled.gameId, relay'.handled.socket,
                    relay.games[relay'.handled.gameId].currentTurn)
           /\ ~Plays(relay'.handled.gameId, relay'.handled.socket,
                     Opposite(relay.games[relay'.handled.gameId].currentTurn)))
            => ~MoveRefused(relay'.handled.socket)

MoveOutOfTurnRefused ==
  /\ relay.handled.event = "move"
  /\ \E e \in relay.emitted : e.event = "error: Not your turn"


-----------------------------------------------------------------------------
(* The peer *)

(* The step handles an opponent-move event. *)
HandlesOpponentMove == ret'.op = "opponent-move" /\ <<game, ret, peer>>' # <<game, ret, peer>>

(* C23: every incoming opponent move is validated again by the Game of the   *)
(* receiving peer: it is applied only through Game.makeMove, so only when it *)
(* is legal for the side to move there; when that call fails (or is never    *)
(* reached) the receiver's Game is unchanged and canMakeMove is not switched *)
(* on.                                                                       *)
C23_OpponentMoveRevalidated ==
  [][HandlesOpponentMove
       => IF ret'.success
          THEN /\ LegalForSideToMove
               /\ game' = makeMove(game, ret'.args.from, ret'.args.to,
                                   ret'.args.promotion).game
               /\ peer'.canMakeMove
          ELSE game' = game /\ peer' = peer]_vars

(* The peer waits for the opponent, moves have been played, and the move that *)
(* arrived was refused by the Game.                                           *)
C23_Witness ==
  /\ ret.op = "opponent-move" /\ ~ret.success
  /\ ret.args.from # NoPos
  /\ peer.isOnlineGame /\ ~peer.canMakeMove
  /\ Len(game.moveHistory) > 0

(* The text of the move that arrived was no square, and nothing changed. *)
MalformedOpponentMove ==
  /\ ret.op = "opponent-move" /\ ret.error = "Invalid algebraic position"
  /\ ~peer.canMakeMove

(* An opponent move was applied and the peer may move. *)
OpponentMoveApplied ==
  /\ ret.op = "opponent-move" /\ ret.success
  /\ peer.canMakeMove


-----------------------------------------------------------------------------
(* Board.movePiece, applied to the board and the arguments of each makeMove *)
(* call (makeMove is called with every pair of squares)                     *)

(* The step is a makeMove call. *)
MoveCalled == ret'.op = "makeMove"

(* The reasons for which movePiece refuses: no piece on the source; the      *)
(* target off the board, the source itself, or held by a piece of the        *)
(* mover's color; or a move that is not of the piece's shape.                *)
MovePieceRefuses(board, from, to) ==
  \/ getPieceAt(board, from) = NoPiece
  \/ ~(to.row \in 0..7 /\ to.col \in 0..7)
  \/ to = from
  \/ getPieceAt(board, to).color = getPieceAt(board, from).color
  \/ ~canMoveTo(board, from, to)

(* movePiece, with r what it returns, fails exactly for those reasons and then *)
(* returns the board it was given; when it succeeds the board is another one.  *)
AllOrNothing(board, from, to, r) ==
  /\ r.result.success <=> ~MovePieceRefuses(board, from, to)
  /\ IF r.result.success
     THEN r.board # board
     ELSE /\ r.board = board
          /\ r.result.error = (IF getPieceAt(board, from) = NoPiece
                               THEN "No piece at source position" ELSE "Invalid move")

(* The nearest positions outside the board in the column and in the row of p. *)
OffBoardOf(p) ==
  {Pos(IF p.row < 4 THEN 0 - 1 ELSE 8, p.col), Pos(p.row, IF p.col < 4 THEN 0 - 1 ELSE 8)}

(* C24: Board.movePiece is all-or-nothing: it returns a failure, with the      *)
(* board unchanged, when the source square is empty or isValidMove rejects the *)
(* move (target off the board, the piece's own square, a square held by a      *)
(* piece of its color, or a move against the piece's movement rule), and it    *)
(* changes the board only after both tests have passed.                        *)
C24_MovePieceAllOrNothing ==
  [][MoveCalled
       => \A to \in {ret'.args.to} \cup OffBoardOf(ret'.args.to) :
            AllOrNothing(game.board, ret'.args.from, to,
                         movePiece(game.board, ret'.args.from, to, ret'.args.promotion))]_vars

(* The board refused a capture of a piece of the mover's color, and is as it *)
(* was.                                                                      *)
C24_Witness ==
  /\ WasMakeMove /\ ret.error = "Invalid move"
  /\ getPieceAt(game.board, ret.args.to) # NoPiece
  /\ getPieceAt(game.board, ret.args.to).color = getPieceAt(game.board, ret.args.from).color
  /\ canMoveTo(game.board, ret.args.from, ret.args.to)
  /\ movePiece(game.board, ret.args.from, ret.args.to, ret.args.promotion).board = game.board


(* The square a pawn skips when it goes from `from` two ranks ahead to `to`. *)
SkippedSquare(from, to) == Pos((from.row + to.row) \div 2, from.col)

(* A pawn stands on `from` and `to` is two ranks away. *)
PawnDoubleStep(board, from, to) ==
  getPieceAt(board, from).kind = PAWN /\ to.row - from.row \in {0 - 2, 2}

(* When movePiece, with r what it returns, succeeded, the en passant target of *)
(* the board is the skipped square after a double step of a pawn, and none     *)
(* after any other move.                                                       *)
EnPassantTargetSet(board, from, to, r) ==
  r.result.success
    => /\ r.board.enPassantTarget =
            (IF PawnDoubleStep(board, from, to) THEN SkippedSquare(from, to) ELSE NoPos)
       /\ r.result.newEnPassantTarget = r.board.enPassantTarget

(* C25: after every successful movePiece the en passant target is set exactly *)
(* when the move was a pawn advancing two ranks, and is then the square the   *)
(* pawn skipped; every other successful move clears it.                       *)
C25_EnPassantTargetAfterMove ==
  [][MoveCalled
       => /\ EnPassantTargetSet(game.board, ret'.args.from, ret'.args.to,
                                movePiece(game.board, ret'.args.from, ret'.args.to,
                                          ret'.args.promotion))
          /\ ret'.success
               => game'.board.enPassantTarget =
                    (IF PawnDoubleStep(game.board, ret'.args.from, ret'.args.to)
                     THEN SkippedSquare(ret'.args.from, ret'.args.to) ELSE NoPos)]_vars

(* A white pawn went from its starting rank two ranks ahead, and the target is *)
(* the square between.                                                         *)
C25_Witness ==
  /\ Committed
  /\ ret.args.from.row = 6 /\ ret.args.to.row = 4
  /\ getPieceAt(game.board, ret.args.to) = [kind |-> PAWN, color |-> WHITE, hasMoved |-> TRUE]
  /\ game.board.enPassantTarget = Pos(5, ret.args.from.col)

(* A move that was no double step was made on a board with a target, and the *)
(* target is gone.                                                           *)
EnPassantTargetCleared ==
  /\ Committed
  /\ Last(past).enPassantTarget # NoPos
  /\ game.board.enPassantTarget = NoPos


(* The makeMove call of the step moves a pawn of the side to move onto the en *)
(* passant target of the board, and Board.movePiece carries the move out.    *)
PawnEntersEnPassantTarget ==
  /\ MoveCalled
  /\ isTurnOf(game, getPieceAt(game.board, ret'.args.from))
  /\ getPieceAt(game.board, ret'.args.from).kind = PAWN
  /\ ret'.args.to = game.board.enPassantTarget
  /\ isValidMove(game.board, ret'.args.from, ret'.args.to)

(* The square one rank behind `to` for a pawn that came from `from`. *)
BehindDestination(from, to) == Pos(from.row, to.col)

(* movePiece, with r what it returns, took the enemy pawn behind the          *)
(* destination and nothing else: the destination holds the capturing pawn,    *)
(* the source and the square behind the destination are empty, every other    *)
(* square is as it was, and the result reports that pawn, as an en passant    *)
(* capture.                                                                   *)
CapturedEnPassant(board, from, to, r) ==
  /\ getPieceAt(board, BehindDestination(from, to)).kind = PAWN
  /\ getPieceAt(board, BehindDestination(from, to)).color
       = Opposite(getPieceAt(board, from).color)
  /\ r.board.pieces =
       [board.pieces EXCEPT ![Idx(from)] = NoPiece,
                            ![Idx(BehindDestination(from, to))] = NoPiece,
                            ![Idx(to)] = [getPieceAt(board, from) EXCEPT !.hasMoved = TRUE]]
  /\ r.board.capturedPieces =
       Append(board.capturedPieces, getPieceAt(board, BehindDestination(from, to)))
  /\ r.result.capturedPiece = getPieceAt(board, BehindDestination(from, to))
  /\ r.result.isEnPassant

NoEnemyPawnBehindTarget ==
  /\ Committed
  /\ ret.args.from.col = ret.args.to.col
  /\ ret.move.isEnPassant
  /\ getPieceAt(game.board, ret.args.to) = NoPiece


(* The makeMove call of the step moves the king of the side to move two files, *)
(* and Board.movePiece carries the move out.                                   *)
KingMovesTwoFiles ==
  /\ MoveCalled
  /\ isTurnOf(game, getPieceAt(game.board, ret'.args.from))
  /\ getPieceAt(game.board, ret'.args.from).kind = KING
  /\ ret'.args.to.col - ret'.args.from.col \in {0 - 2, 2}
  /\ isValidMove(game.board, ret'.args.from, ret'.args.to)

(* The corner of the side the king moves to, and the f-file or d-file square *)
(* of the king's rank.                                                       *)
RookCorner(from, to) == Pos(from.row, IF to.col > from.col THEN 7 ELSE 0)
RookDestination(from, to) == Pos(from.row, IF to.col > from.col THEN 5 ELSE 3)

(* movePiece, with r what it returns, castled: the king stands on `to` and the *)
(* rook of the corner on the f-file or d-file square, which is the square next *)
(* to the king on the side it came from; both have hasMoved set; the squares   *)
(* they left are empty and every other square is as it was.                    *)
Castled(board, from, to, r) ==
  /\ getPieceAt(board, RookCorner(from, to)).kind = ROOK
  /\ RookDestination(from, to).col = (IF to.col > from.col THEN to.col - 1 ELSE to.col + 1)
  /\ r.board.pieces =
       [board.pieces EXCEPT
          ![Idx(from)] = NoPiece,
          ![Idx(RookCorner(from, to))] = NoPiece,
          ![Idx(to)] = [getPieceAt(board, from) EXCEPT !.hasMoved = TRUE],
          ![Idx(RookDestination(from, to))] =
             [getPieceAt(board, RookCorner(from, to)) EXCEPT !.hasMoved = TRUE]]
  /\ r.board.capturedPieces = board.capturedPieces
  /\ r.result.isCastling

(* C27: when a king moves two files, the rook on the corner of that side is   *)
(* relocated to the square next to the king on the side the king came from    *)
(* (the f-file kingside, the d-file queenside), king and rook both get        *)
(* hasMoved = true, and the move is recorded as exactly O-O when the          *)
(* destination file is greater than the source file and as O-O-O otherwise.   *)
C27_CastlingExecution ==
  [][KingMovesTwoFiles
       => /\ Castled(game.board, ret'.args.from, ret'.args.to,
                     movePiece(game.board, ret'.args.from, ret'.args.to,
                               ret'.args.promotion))
          /\ ret'.success
               => /\ game'.board.pieces =
                       movePiece(game.board, ret'.args.from, ret'.args.to,
                                 ret'.args.promotion).board.pieces
                  /\ ret'.move.notation =
                       (IF ret'.args.to.col > ret'.args.from.col
                        THEN <<"O", "-", "O">> ELSE <<"O", "-", "O", "-", "O">>)
                  /\ Last(game'.moveHistory).notation = ret'.move.notation]_vars

(* Castling queenside was committed: king on the c-file, rook on the d-file. *)
C27_Witness ==
  /\ Committed
  /\ ret.move.notation = <<"O", "-", "O", "-", "O">>
  /\ getPieceAt(game.board, Pos(ret.args.from.row, 2)).kind = KING
  /\ getPieceAt(game.board, Pos(ret.args.from.row, 2)).hasMoved
  /\ getPieceAt(game.board, Pos(ret.args.from.row, 3)).kind = ROOK
  /\ getPieceAt(game.board, Pos(ret.args.from.row, 3)).hasMoved
  /\ getPieceAt(game.board, Pos(ret.args.from.row, 0)) = NoPiece

(* Castling kingside was committed. *)
CastledKingside ==
  /\ Committed
  /\ ret.move.notation = <<"O", "-", "O">>
  /\ getPieceAt(game.board, Pos(ret.args.from.row, 5)).kind = ROOK


(* The makeMove call of the step moves a pawn of the side to move to the last *)
(* rank, and Board.movePiece carries the move out.                            *)
PawnReachesBackRank ==
  /\ MoveCalled
  /\ isTurnOf(game, getPieceAt(game.board, ret'.args.from))
  /\ getPieceAt(game.board, ret'.args.from).kind = PAWN
  /\ ret'.args.to.row = (IF game.currentTurn = WHITE THEN 0 ELSE 7)
  /\ isValidMove(game.board, ret'.args.from, ret'.args.to)

(* The kind asked for when it is one of Q, R, B, N, and the queen otherwise. *)
KindAskedFor(promotionPiece) ==
  CASE promotionPiece = "Q" -> QUEEN
    [] promotionPiece = "R" -> ROOK
    [] promotionPiece = "B" -> BISHOP
    [] promotionPiece = "N" -> KNIGHT
    [] OTHER -> QUEEN

(* movePiece, with r what it returns, promoted: the source is empty, the      *)
(* destination holds a piece of the kind asked for, of the pawn's color, with *)
(* hasMoved set; every other square is as it was, so that the number of       *)
(* pieces is one less exactly when the destination held a piece.              *)
Promoted(board, from, to, promotionPiece, r) ==
  /\ r.board.pieces =
       [board.pieces EXCEPT
          ![Idx(from)] = NoPiece,
          ![Idx(to)] = [kind |-> KindAskedFor(promotionPiece),
                        color |-> getPieceAt(board, from).color, hasMoved |-> TRUE]]
  /\ PieceCount(r.board) =
       PieceCount(board) - (IF getPieceAt(board, to) = NoPiece THEN 0 ELSE 1)
  /\ r.board.capturedPieces =
       (IF getPieceAt(board, to) = NoPiece THEN board.capturedPieces
        ELSE Append(board.capturedPieces, getPieceAt(board, to)))
  /\ r.result.isPromotion
  /\ r.result.promotedTo = getPieceAt(r.board, to)

(* C28: when a pawn reaches the opposite back rank (row 0 for White, row 7    *)
(* for Black), the pawn is removed and exactly one new piece of its color is  *)
(* created on the destination with hasMoved = true; its kind is the one asked *)
(* for when that is Q, R, B or N, and the queen for any other or missing      *)
(* value; the number of pieces changes only by the capture, if any.           *)
C28_Promotion ==
  [][PawnReachesBackRank
       => /\ Promoted(game.board, ret'.args.from, ret'.args.to, ret'.args.promotion,
                      movePiece(game.board, ret'.args.from, ret'.args.to,
                                ret'.args.promotion))
          /\ ret'.success => game'.board.pieces =
               movePiece(game.board, ret'.args.from, ret'.args.to,
                         ret'.args.promotion).board.pieces]_vars

(* A pawn was promoted to a knight, as asked. *)
C28_Witness ==
  /\ Committed
  /\ ret.move.isPromotion
  /\ ret.args.promotion = KNIGHT
  /\ getPieceAt(game.board, ret.args.to) =
       [kind |-> KNIGHT, color |-> Opposite(game.currentTurn), hasMoved |-> TRUE]
  /\ getPieceAt(game.board, ret.args.from) = NoPiece

(* A pawn was promoted with no kind asked for, to a queen. *)
PromotedByDefault ==
  /\ Committed
  /\ ret.move.isPromotion
  /\ ret.args.promotion \notin {QUEEN, ROOK, BISHOP, KNIGHT}
  /\ getPieceAt(game.board, ret.args.to).kind = QUEEN

(* A black pawn was promoted on a square from which it took a piece, and the *)
(* board has one piece less.                                                *)
PromotedWithCapture ==
  /\ Committed
  /\ ret.move.isPromotion
  /\ ret.move.capturedPiece # NoPiece
  /\ ret.args.to.row = 7
  /\ getPieceAt(game.board, ret.args.to).color = BLACK
  /\ PieceCount(game.board) = Cardinality({p \in Squares : Last(past).pieces[Idx(p)] # NoPiece}) - 1


-----------------------------------------------------------------------------
(* Attacks *)

(* The piece on square a attacks the square: a king the squares at row and  *)
(* column distance at most 1, a pawn the two squares diagonally ahead, every *)
(* other piece the squares its isValidMove accepts.                          *)
Attacks(board, a, square) ==
  CASE getPieceAt(board, a).kind = KING ->
         /\ square.row - a.row \in {0 - 1, 0, 1}
         /\ square.col - a.col \in {0 - 1, 0, 1}
    [] getPieceAt(board, a).kind = PAWN ->
         /\ square.row = a.row + (IF getPieceAt(board, a).color = WHITE THEN 0 - 1 ELSE 1)
         /\ square.col - a.col \in {0 - 1, 1}
    [] OTHER -> isValidMove(board, a, square)

(* isSquareAttacked is true exactly when a piece of the color attacks the *)
(* square.                                                                *)
AttackedWhenSomePieceAttacks(board, square, byColor) ==
  isSquareAttacked(board, square, byColor)
    <=> \E a \in Squares : getPieceAt(board, a).color = byColor /\ Attacks(board, a, square)

(* The moves played are 1.e4 e5 2.Qh5. *)
AfterQh5 ==
  /\ Len(game.moveHistory) = 3
  /\ game.moveHistory[1].notation = <<"e", "4">>
  /\ game.moveHistory[2].notation = <<"e", "5">>
  /\ game.moveHistory[3].from = <<"d", "1">> /\ game.moveHistory[3].to = <<"h", "5">>

(* C29: isSquareAttacked(square, byColor) is true if and only if some piece of *)
(* byColor attacks the square, where a king attacks only the squares at row    *)
(* and column distance at most 1 (castling never counts), a pawn only its two  *)
(* forward-diagonal squares (never the square straight ahead), and every other *)
(* piece the squares its isValidMove accepts; so after 1.e4 e5 2.Qh5 the black *)
(* king is not in check and the status is active.                              *)
C29_SquareAttacked ==
  /\ \A square \in Squares : \A byColor \in {WHITE, BLACK} :
       AttackedWhenSomePieceAttacks(game.board, square, byColor)
  /\ AfterQh5
       => /\ ~isKingInCheck(game.board, BLACK)
          /\ game.gameStatus = ACTIVE
          /\ game.moveHistory[3].notation = <<"Q", "h", "5">>

(* 1.e4 e5 2.Qh5 was played: the queen attacks h7, f7 and e5 and, behind the  *)
(* pawn on f7, not e8; the square e4 straight ahead of the black pawn on e5   *)
(* is not attacked by Black, the squares d4 and f4 are.                       *)
C29_Witness ==
  /\ AfterQh5
  /\ game.currentTurn = BLACK
  /\ isSquareAttacked(game.board, Pos(1, 7), WHITE)
  /\ isSquareAttacked(game.board, Pos(1, 5), WHITE)
  /\ isSquareAttacked(game.board, Pos(3, 4), WHITE)
  /\ ~isSquareAttacked(game.board, Pos(0, 4), WHITE)
  /\ ~isSquareAttacked(game.board, Pos(4, 4), BLACK)
  /\ isSquareAttacked(game.board, Pos(4, 3), BLACK)
  /\ isSquareAttacked(game.board, Pos(4, 5), BLACK)
  /\ game.gameStatus = ACTIVE

(* The same equivalence for the two squares and both colors of every makeMove *)
(* call, on the boards reached with every pair of squares.                    *)
AttackedSquaresOfCalls ==
  [][MoveCalled
       => \A square \in {ret'.args.from, ret'.args.to} : \A byColor \in {WHITE, BLACK} :
            AttackedWhenSomePieceAttacks(game.board, square, byColor)]_vars


-----------------------------------------------------------------------------
(* Pawns *)

(* The row one step ahead of a pawn of the color, k steps ahead for k. *)
Ahead(color, row, k) == IF color = WHITE THEN row - k ELSE row + k

(* The destinations of the pawn on `from`: the square one step ahead when it  *)
(* is empty; the square two steps ahead when the pawn stands on its starting  *)
(* rank and that square and the one between are empty; a square diagonally    *)
(* ahead when it holds an enemy piece or is the en passant target.            *)
PawnDestination(board, from, to) ==
  /\ to \in Squares
  /\ \/ /\ to = Pos(Ahead(getPieceAt(board, from).color, from.row, 1), from.col)
        /\ getPieceAt(board, to) = NoPiece
     \/ /\ to = Pos(Ahead(getPieceAt(board, from).color, from.row, 2), from.col)
        /\ from.row = (IF getPieceAt(board, from).color = WHITE THEN 6 ELSE 1)
        /\ getPieceAt(board, Pos(Ahead(getPieceAt(board, from).color, from.row, 1),
                                 from.col)) = NoPiece
        /\ getPieceAt(board, to) = NoPiece
     \/ /\ to.row = Ahead(getPieceAt(board, from).color, from.row, 1)
        /\ to.col \in {from.col - 1, from.col + 1}
        /\ \/ getPieceAt(board, to).color = Opposite(getPieceAt(board, from).color)
           \/ to = board.enPassantTarget

(* C30: Pawn.isValidMove accepts exactly these destinations: the square one   *)
(* step forward when it is empty; the square two steps forward when the pawn  *)
(* stands on its starting rank (row 6 for White, row 1 for Black) and both    *)
(* the square between and the destination are empty; a forward-diagonal       *)
(* square when it holds an enemy piece or is the board's en passant target.   *)
(* Every other destination is rejected.                                       *)
C30_PawnDestinations ==
  [][(MoveCalled /\ getPieceAt(game.board, ret'.args.from).kind = PAWN)
       => \A to \in {ret'.args.to} \cup OffBoardOf(ret'.args.to) :
            isValidMove(game.board, ret'.args.from, to)
              <=> PawnDestination(game.board, ret'.args.from, to)]_vars

(* A pawn was asked to go to the empty square diagonally ahead that is not *)
(* the en passant target, and the board refused.                           *)
C30_Witness ==
  /\ WasMakeMove /\ ret.error = "Invalid move"
  /\ getPieceAt(game.board, ret.args.from).kind = PAWN
  /\ ret.args.to.row = Ahead(game.currentTurn, ret.args.from.row, 1)
  /\ ret.args.to.col \in {ret.args.from.col - 1, ret.args.from.col + 1}
  /\ getPieceAt(game.board, ret.args.to) = NoPiece
  /\ game.board.enPassantTarget # NoPos
  /\ ret.args.to # game.board.enPassantTarget

(* A pawn took the piece diagonally ahead. *)
PawnCaptured ==
  /\ Committed
  /\ ret.move.piece.kind = PAWN
  /\ ret.move.capturedPiece # NoPiece /\ ~ret.move.isEnPassant


-----------------------------------------------------------------------------
(* Rooms without participants *)

(* The sockets registered as players of the room. *)
PlayersOf(g) == {relay.games[g].players[i].id : i \in 1..Len(relay.games[g].players)}

(* C31: a relay room is removed once it has no participants left: when every *)
(* participant of a room has disconnected, the room id is no longer in the   *)
(* server's games map.                                                       *)
C31_EmptyRoomRemoved ==
  \A g \in DOMAIN relay.games : PlayersOf(g) \cap relay.connected # {}

(* A room with one registered player is removed when that player disconnects. *)
SoleParticipantRoomRemoved ==
  [][\A g \in DOMAIN relay.games :
       (/\ Handles("disconnect")
        /\ Len(relay.games[g].players) = 1
        /\ relay'.handled.socket \in PlayersOf(g))
       => g \notin DOMAIN relay'.games]_vars

(* A room with two registered players stays in the games map when a player *)
(* disconnects, the last one included.                                     *)
FullRoomNeverRemoved ==
  [][\A g \in DOMAIN relay.games :
       Len(relay.games[g].players) = 2 => g \in DOMAIN relay'.games]_vars


-----------------------------------------------------------------------------
(* Coordinates *)

(* The position the text names: column = index of the file letter in a..h, *)
(* row = 8 minus the rank digit.                                           *)
Names(letter, digit, p) ==
  \E c \in 0..7 : \E k \in 1..8 :
    /\ FILES[c + 1] = letter /\ RANKS[k] = digit
    /\ p = Pos(8 - k, c)

(* The text is two characters, a letter of a..h and a digit of 1..8. *)
WellFormedCoordinate(text) ==
  /\ Len(text) = 2
  /\ \E p \in Squares : Names(text[1], text[2], p)

(* The same with the letter in either case. *)
WellFormedInEitherCase(text) ==
  /\ Len(text) = 2
  /\ \E p \in Squares : Names(toLowerCase(text[1]), text[2], p)

(* toAlgebraic returned the text that names the square, and fromAlgebraic *)
(* takes that text back to the square.                                    *)
SquareRoundTrips ==
  ret.op = "toAlgebraic"
    => /\ Names(ret.args.fen[1], ret.args.fen[2], ret.args.from)
       /\ fromAlgebraic(ret.args.fen) = [ok |-> TRUE, pos |-> ret.args.from]

(* C32 as stated: for each of the 64 squares fromAlgebraic(p.toAlgebraic())   *)
(* equals p and fromAlgebraic(s).toAlgebraic() equals s, with column = index  *)
(* of the file letter in a..h and row = 8 minus the rank digit; text that is  *)
(* not exactly two characters or whose letter or digit lies outside a..h or   *)
(* 1..8 is rejected with an error instead of producing a Position.            *)
C32_AsStated ==
  /\ SquareRoundTrips
  /\ ret.op = "fromAlgebraic"
       => /\ ret.success <=> WellFormedCoordinate(ret.args.fen)
          /\ ret.success => /\ Names(ret.args.fen[1], ret.args.fen[2], ret.args.from)
                            /\ toAlgebraic(ret.args.from) = ret.args.fen

(* C32: the same, with the file letter read in either case: a text of two  *)
(* characters whose letter is one of a..h or A..H and whose digit is one   *)
(* of 1..8 produces the Position of the lower-case letter and the digit,   *)
(* and toAlgebraic gives the text back with the letter in lower case;      *)
(* every other text is rejected.                                           *)
C32_CoordinateRoundTrip ==
  /\ SquareRoundTrips
  /\ ret.op = "fromAlgebraic"
       => /\ ret.success <=> WellFormedInEitherCase(ret.args.fen)
          /\ ret.success
               => /\ Names(toLowerCase(ret.args.fen[1]), ret.args.fen[2], ret.args.from)
                  /\ toAlgebraic(ret.args.from)
                       = <<toLowerCase(ret.args.fen[1]), ret.args.fen[2]>>

(* toAlgebraic gave "h1" for the square of row 7 and column 7. *)
C32_Witness ==
  /\ ret.op = "toAlgebraic"
  /\ ret.args.from = Pos(7, 7) /\ ret.args.fen = <<"h", "1">>

(* fromAlgebraic gave the square of row 4 and column 4 for "e4". *)
CoordinateParsed ==
  /\ ret.op = "fromAlgebraic" /\ ret.success
  /\ ret.args.fen = <<"e", "4">> /\ ret.args.from = Pos(4, 4)

(* fromAlgebraic refused "i9", "e0" and a text of three characters. *)
CoordinateRefused ==
  /\ ret.op = "fromAlgebraic" /\ ~ret.success
  /\ ret.args.fen \in {<<"i", "9">>, <<"e", "0">>, <<"e", "4", "4">>}

(* fromAlgebraic gave the square of row 4 and column 4 for "E4". *)
UpperCaseParsed ==
  /\ ret.op = "fromAlgebraic" /\ ret.success
  /\ ret.args.fen = <<"E", "4">> /\ ret.args.from = Pos(4, 4)


-----------------------------------------------------------------------------
(* Full FEN *)

(* The castling letters that name the piece of the square: K and Q the white *)
(* king, k and q the black king, each letter the rook of its corner.         *)
RightsNaming(board, p) ==
  IF getPieceAt(board, p).kind = KING
  THEN (IF getPieceAt(board, p).color = WHITE THEN {"K", "Q"} ELSE {"k", "q"})
  ELSE IF getPieceAt(board, p) = [kind |-> ROOK, color |-> WHITE, hasMoved |-> getPieceAt(board, p).hasMoved]
          /\ p.row = 7 /\ p.col \in {0, 7}
  THEN (IF p.col = 7 THEN {"K"} ELSE {"Q"})
  ELSE IF getPieceAt(board, p) = [kind |-> ROOK, color |-> BLACK, hasMoved |-> getPieceAt(board, p).hasMoved]
          /\ p.row = 0 /\ p.col \in {0, 7}
  THEN (IF p.col = 7 THEN {"k"} ELSE {"q"})
  ELSE {}

(* A king or rook of the board is unmoved exactly when the castling field has *)
(* a right that names it.                                                     *)
FlagsFollowRights(board, castling) ==
  \A p \in Squares :
    getPieceAt(board, p).kind \in {KING, ROOK}
      => (~getPieceAt(board, p).hasMoved
            <=> \E letter \in RightsNaming(board, p) : includes(castling, letter))

(* `loaded` is what loadFEN of the text f gave on a new Game: it succeeded, *)
(* getFEN of the game is f again, and the flags follow the rights of f.     *)
FixedPoint(f, loaded) ==
  /\ loaded.ok
  /\ getFEN(loaded.game) = f
  /\ FlagsFollowRights(loaded.game.board, split(f, " ")[3])

(* C33: for every game state reached by legal moves from the standard start, *)
(* loading f = getFEN() into a Game and calling getFEN() again returns f in  *)
(* all six fields; after the load a king or corner rook has hasMoved = false *)
(* exactly when a castling right naming it is present, and every other king  *)
(* or rook has hasMoved = true.                                              *)
C33_FullFENFixedPoint ==
  (ReachedByLegalMove /\ ~fromFEN) => FixedPoint(getFEN(game), GameLoadFEN(NewGame, getFEN(game)))

(* White has castled and Black has not: the text has the rights kq only, *)
(* and a white rook stands on f1.                                        *)
C33_Witness ==
  /\ ReachedByLegalMove /\ ~fromFEN
  /\ castlingField(game.board) = <<"k", "q">>
  /\ getPieceAt(game.board, Pos(7, 5)).kind = ROOK

(* The rook of a8 was taken: the text has the rights KQk. *)
RightLostByCapture ==
  /\ ReachedByLegalMove /\ ~fromFEN
  /\ castlingField(game.board) = <<"K", "Q", "k">>

(* The text has an en passant target. *)
FENWithEnPassantTarget ==
  /\ ReachedByLegalMove /\ ~fromFEN
  /\ getEnPassantTarget(game.board) # NoPos


-----------------------------------------------------------------------------
(* The two histories *)

(* positionHistory has one entry more than moveHistory, and its last entry is *)
(* the position signature of the live board.                                  *)
HistoriesConsistent(g) ==
  /\ Len(g.positionHistory) = Len(g.moveHistory) + 1
  /\ Last(g.positionHistory) = getPositionSignature(g.board)

(* C34: after any sequence of makeMove, undoLastMove, loadFEN (successful or *)
(* failed) and reset calls, positionHistory has exactly moveHistory.length   *)
(* + 1 entries and its last entry equals the position signature of the       *)
(* current live board.                                                       *)
C34_HistoriesConsistent == HistoriesConsistent(game)

(* The same for the games no loadFEN was called on since the construction *)
(* or the last reset.                                                     *)
HistoriesConsistentFromStandardStart == ~fromFEN => HistoriesConsistent(game)

(* The same after every loadFEN that succeeded and the moves that followed, *)
(* up to the next undoLastMove or failed loadFEN.                           *)
HistoriesConsistentAfterLoad ==
  [][(HistoriesConsistent(game) /\ (ret'.op \in {"makeMove", "reset"} \/ ret'.success)
        /\ ret'.op # "undoLastMove")
       => HistoriesConsistent(game')]_vars

(* The two histories always differ in length by one. *)
HistoryLengthsAgree == Len(game.positionHistory) = Len(game.moveHistory) + 1

(* reset was called and left the game of the constructor. *)
ResetCalled == ret.op = "reset" /\ game = NewGame /\ ~fromFEN


-----------------------------------------------------------------------------
(* Kings *)

KingsOf(board, color) ==
  {p \in Squares : getPieceAt(board, p).kind = KING /\ getPieceAt(board, p).color = color}

(* A piece of the side to move attacks a king of the other side. *)
WaitingKingAttacked(g) ==
  \E king \in KingsOf(g.board, Opposite(g.currentTurn)) : \E a \in Squares :
    /\ getPieceAt(g.board, a).color = g.currentTurn
    /\ Attacks(g.board, a, king)

(* C35: in every state reached from the standard start by makeMove and     *)
(* undoLastMove, the king of the side that is not to move is not in check, *)
(* and each color has exactly one king on the board.                       *)
C35_KingsSafe ==
  ~fromFEN => /\ ~WaitingKingAttacked(game)
              /\ \A color \in {WHITE, BLACK} : Cardinality(KingsOf(game.board, color)) = 1

(* After 1.e4 d5 2.Bb5+ Nc6 3.a3 the knight of c6, pinned by the bishop, was *)
(* asked to go to e5 and the move was refused.                               *)
C35_Witness ==
  /\ ~fromFEN
  /\ WasMakeMove /\ ~ret.success /\ ret.error = SelfCheckError
  /\ Len(game.moveHistory) = 5
  /\ toAlgebraic(ret.args.from) = <<"c", "6">>

(* A move that gave check was taken back. *)
CheckTakenBack ==
  /\ ~fromFEN /\ WasUndo /\ ret.success
  /\ Len(past) = 2 /\ Len(game.moveHistory) = 2
  /\ game.moveHistory[2].to = <<"d", "5">>


-----------------------------------------------------------------------------
(* makeMove and the legal-move query *)

(* The other promotion kinds a call could have passed: the kind is read when *)
(* a pawn goes to the first or the last row, and by no other move.          *)
OtherKinds(piece, to, promotionPiece) ==
  IF piece.kind = PAWN /\ to.row \in {0, 7} THEN PromotionInputs \ {promotionPiece} ELSE {}

(* C36: makeMove and the legal-move query agree: for a square `from` holding *)
(* a piece of currentTurn and any square `to`, Game.makeMove(from, to,       *)
(* promotion) succeeds if and only if `to` is in                             *)
(* Board.getLegalMovesForPiece(pieceAt(from)), whatever promotion kind is    *)
(* passed.                                                                   *)
C36_MakeMoveAgreesWithQuery ==
  [][(MoveCalled /\ getPieceAt(game.board, ret'.args.from).color = game.currentTurn)
       => /\ ret'.success
               <=> ret'.args.to \in getLegalMovesForPiece(game.board, ret'.args.from)
          /\ \A promotionPiece \in OtherKinds(getPieceAt(game.board, ret'.args.from),
                                              ret'.args.to, ret'.args.promotion) :
               makeMove(game, ret'.args.from, ret'.args.to, promotionPiece).ret.success
                 = ret'.success]_vars

(* A move the piece rules allow was refused because it leaves the king of the *)
(* side to move in check: the query does not return its destination.          *)
C36_Witness ==
  /\ WasMakeMove /\ ret.error = SelfCheckError
  /\ getPieceAt(game.board, ret.args.from).color = game.currentTurn
  /\ isValidMove(game.board, ret.args.from, ret.args.to)
  /\ ret.args.to \notin getLegalMovesForPiece(game.board, ret.args.from)


-----------------------------------------------------------------------------
(* Castling rights in forward play *)

(* The letters of the castling field of getFEN(). *)
CastlingRights(g) ==
  {letter \in {"K", "Q", "k", "q"} : includes(castlingField(g.board), letter)}

(* The squares that hold a piece whose hasMoved flag is false. *)
Unmoved(board) ==
  {p \in Squares : getPieceAt(board, p) # NoPiece /\ ~getPieceAt(board, p).hasMoved}

(* C37: castling rights only shrink during forward play: a castling right    *)
(* absent from the castling field of getFEN() before a successful makeMove   *)
(* is absent after it, and hence at every later state; no makeMove resets a  *)
(* piece's hasMoved flag to false: a piece that is unmoved after the call is *)
(* the same piece, unmoved on the same square, before it.                    *)
C37_CastlingRightsOnlyShrink ==
  [][(MoveCalled /\ ret'.success)
       => /\ CastlingRights(game') \subseteq CastlingRights(game)
          /\ \A p \in Unmoved(game'.board) :
               getPieceAt(game.board, p) = getPieceAt(game'.board, p)]_vars

(* The rook of h1 moved and the right K, present before the move, is gone; *)
(* the right Q is still there.                                             *)
C37_Witness ==
  /\ Committed
  /\ ret.move.piece = Piece(ROOK, WHITE) /\ ret.move.from = <<"h", "1">>
  /\ includes(castlingField([game.board EXCEPT !.pieces = Last(past).pieces]), "K")
  /\ CastlingRights(game) = {"Q"}

(* The king moved and both rights of its colour are gone. *)
RightsLostByKingMove ==
  /\ Committed
  /\ ret.move.piece.kind = KING /\ ~ret.move.isCastling
  /\ includes(castlingField([game.board EXCEPT !.pieces = Last(past).pieces]), "Q")
  /\ CastlingRights(game) = {}


-----------------------------------------------------------------------------
(* The online game *)

(* Both browsers are in the online game: one has created it, the other joined. *)
BothJoined == \A s \in Browsers : online.browsers[s].isOnlineGame

(* No event is in flight, to the relay or to a browser. *)
NothingInFlight ==
  \A s \in Browsers : online.toServer[s] = <<>> /\ online.toBrowser[s] = <<>>

(* The browsers that may move. *)
MayMove == {s \in Browsers : online.browsers[s].canMakeMove}

(* The turn flag of the room the browsers are in. *)
RoomTurn == relay.games[online.browsers["s1"].gameId].currentTurn

(* At most one browser may move, and when nothing is in flight exactly one, *)
(* the one whose color is the turn flag of the room.                        *)
TurnPermissionAgrees ==
  /\ Cardinality(MayMove) <= 1
  /\ NothingInFlight
       => \E s \in Browsers : MayMove = {s} /\ online.browsers[s].playerColor = RoomTurn

(* C38: turn permission agrees across the online system: in an online game  *)
(* with both peers joined, at most one peer has canMakeMove = true at any    *)
(* time, and whenever no message is in flight exactly one peer has it and    *)
(* that peer's color equals the relay room's turn flag.                      *)
C38_TurnPermissionAgrees == BothJoined => TurnPermissionAgrees

(* The same for the games in which New Game was not clicked and the relay *)
(* recorded no move before the second browser was in the room.            *)
TurnPermissionAgreesInPlainGames ==
  (BothJoined /\ online.restarts = 0 /\ ~online.unheard) => TurnPermissionAgrees

(* Both browsers wait: nothing is in flight and neither may move. *)
BothWait == BothJoined /\ NothingInFlight /\ MayMove = {}

(* Both browsers may move. *)
BothMayMove == BothJoined /\ MayMove = Browsers

(* The two Games have the same move history and the same FEN. *)
InSync ==
  /\ online.browsers["s1"].game.moveHistory = online.browsers["s2"].game.moveHistory
  /\ getFEN(online.browsers["s1"].game) = getFEN(online.browsers["s2"].game)

(* C39: peer boards stay in sync: in an online game, whenever no message is  *)
(* in flight the two peers' Games have the same move history and the same    *)
(* FEN, for every interleaving of create-game, join-game and move events,    *)
(* including a move made by the creator before the opponent has joined.      *)
C39_BoardsInSync ==
  (BothJoined /\ NothingInFlight /\ online.restarts = 0) => InSync

(* The same for the games in which the relay recorded no move before the *)
(* second browser was in the room.                                       *)
InSyncWhenEveryMoveHeard ==
  (BothJoined /\ NothingInFlight /\ online.restarts = 0 /\ ~online.unheard) => InSync

(* The browsers played 1.e4 e5 and both boards show it. *)
TwoPliesInSync ==
  /\ BothJoined /\ NothingInFlight /\ InSync
  /\ Len(online.browsers["s2"].game.moveHistory) = 2

(* The Game is at the standard starting position with no move played. *)
AtStart(g) == g.moveHistory = <<>> /\ getFEN(g) = getFEN(NewGame)

(* Both Games are at the start, the turn flag of the room is white, and *)
(* only the white browser may move.                                     *)
Converged ==
  /\ \A s \in Browsers : AtStart(online.browsers[s].game)
  /\ RoomTurn = WHITE
  /\ MayMove = {s \in Browsers : online.browsers[s].playerColor = WHITE}
  /\ Cardinality(MayMove) = 1

(* C40: restart converges: once a restart-game request has been processed by *)
(* the relay and all messages have been delivered, both peers' Games are at  *)
(* the standard starting position, the relay's turn flag is white, and only  *)
(* the white peer has canMakeMove = true, regardless of any move that was in *)
(* flight when the restart was requested.  (No square is clicked after the   *)
(* request.)                                                                 *)
C40_RestartConverges ==
  (BothJoined /\ online.restart = "processed" /\ ~online.clicked /\ NothingInFlight)
    => Converged

(* The same when no move was in flight to the relay from the other browser *)
(* at the time the relay handled the restart: the room has recorded no     *)
(* move since.                                                             *)
RestartConvergesWithoutRace ==
  (BothJoined /\ online.restart = "processed" /\ ~online.clicked /\ NothingInFlight
     /\ relay.games[online.browsers["s1"].gameId].moves = <<>>)
    => Converged

(* A restart after 1.e4 was played on both boards has converged. *)
RestartedAfterMove ==
  /\ BothJoined /\ online.restart = "processed" /\ ~online.clicked /\ NothingInFlight
  /\ Converged

=============================================================================
